---- MODULE Spec2Model ----
(***************************************************************************)
(* A model of the AliExpress / eBay product scraper:                       *)
(*   - the eBay Browse API client (src/ebay_api.py): OAuth token cache,    *)
(*     get_product_details, item groups, check_availability;               *)
(*   - the AliExpress DataHub client (src/aliexpress_api.py);              *)
(*   - the image downloader (src/image_downloader.py);                     *)
(*   - the URL resolver (src/url_parser.py);                               *)
(*   - the table processor (src/table_processor.py);                       *)
(*   - the orchestrator (src/main.py).                                     *)
(*                                                                         *)
(* Conventions.  A Python call is an operator that returns a record with   *)
(* a field exc: "none" when the call returns, else the name of the         *)
(* exception that leaves the call.  What the network answers is an input   *)
(* of the operator (a response record) chosen by the action with \E.       *)
(* Python's None is a named null value of the field's own type.            *)
(***************************************************************************)
EXTENDS Integers, Sequences, FiniteSets, TLC

VARIABLES
    now,            \* time.time(), in seconds
    access_token,   \* EbayAPI.access_token
    token_expiry,   \* EbayAPI.token_expiry
    ebay_log,       \* the last call made on the EbayAPI instance and its outcome
    last_request_time,  \* AliExpressAPI.last_request_time
    ali_log,        \* the last call made on the AliExpressAPI instance and its outcome
    files,          \* the image files below Config.DOWNLOAD_FOLDER
    link_log,       \* the last call of process_single_link and its outcome
    df,             \* TableProcessor.df
    results,        \* ProductScraper.results
    run,            \* the batch in progress: where it is and what it printed
    dl_log,         \* the last call made on the ImageDownloader and its outcome
    url_log,        \* the last call of a function of url_parser and its outcome
    col_log         \* the last call of find_link_column and its outcome

scraperVars == <<files, link_log, df, results, run>>
toolVars == <<dl_log, url_log, col_log>>

vars == <<now, access_token, token_expiry, ebay_log, last_request_time, ali_log,
          files, link_log, df, results, run, dl_log, url_log, col_log>>

(***************************************************************************)
(* Bounds of the model.                                                    *)
(***************************************************************************)
MaxTime == 900      \* the clock stops advancing here
MaxQty == 2         \* largest estimatedAvailableQuantity of one listing
MaxGroup == 2       \* largest number of members of an item group
MaxStock == 5       \* largest totalAvailableStock / stock of an item
StartTime == 10     \* time.time() when the AliExpress client is constructed
MaxAliTicks == 2    \* the AliExpress client is used up to StartTime + MaxAliTicks
MaxRows == 2        \* largest number of rows of a table and of links of a list
MaxImages == 2      \* largest number of entries of imageUrls
MaxFill == 5        \* largest number of cells above the last cell of a column
MaxText == 4        \* longest description text, in characters

(***************************************************************************)
(* eBay client: the OAuth token cache (src/ebay_api.py)                    *)
(***************************************************************************)

\* The safety margin subtracted from expires_in.
TokenMargin == 300

\* The clock advances in steps of these sizes, and the token endpoint reports
\* these lifetimes, so that a call can fall strictly before, exactly at and
\* after token_expiry.
TickSteps == {150, 300}
Lifetimes == {150, 450, 600}

\* A bearer token is identified by the time it was issued and the lifetime
\* (expires_in) the token endpoint reported with it; e = -1: none reported.
NoToken == [t |-> -1, e |-> -1]
Token(t, e) == [t |-> t, e |-> e]

\* Answers of the token endpoint: "fail" (transport error or non-2xx, a
\* RequestException), "ok" (access_token and expires_in = e), "no_token"
\* (2xx JSON without access_token), "no_expires" (2xx JSON without expires_in).
TokenResponses ==
    {[kind |-> k, e |-> 0] : k \in {"fail", "no_token", "no_expires"}}
    \cup {[kind |-> "ok", e |-> e] : e \in Lifetimes}

\* The cached-token test of _get_access_token (line 44).
TokenIsValid_Le(st, clock) ==
    st.access_token # NoToken /\ clock <= st.token_expiry

TokenIsValid(st, clock) ==
    st.access_token # NoToken /\ clock < st.token_expiry

\* The expiry stored with a new token (line 75).
NewExpiry(clock, e) == clock + e - TokenMargin

\* EbayAPI._get_access_token with st = [access_token, token_expiry], the
\* clock and the answer tr the token endpoint gives if it is asked.
\* reqs: the number of token requests issued.
GetAccessToken(st, clock, tr) ==
    IF TokenIsValid(st, clock)
    THEN [exc |-> "none", token |-> st.access_token, st |-> st, reqs |-> 0]
    ELSE CASE tr.kind = "fail" ->
                [exc |-> "RequestException", token |-> NoToken, st |-> st, reqs |-> 1]
           [] tr.kind = "no_token" ->
                [exc |-> "KeyError", token |-> NoToken, st |-> st, reqs |-> 1]
           [] tr.kind = "no_expires" ->
                \* line 73 has assigned access_token when line 75 raises
                [exc |-> "KeyError", token |-> NoToken,
                 st |-> [access_token |-> Token(clock, -1),
                         token_expiry |-> st.token_expiry],
                 reqs |-> 1]
           [] OTHER ->
                [exc |-> "none", token |-> Token(clock, tr.e),
                 st |-> [access_token |-> Token(clock, tr.e),
                         token_expiry |-> NewExpiry(clock, tr.e)],
                 reqs |-> 1]

(***************************************************************************)
(* eBay client: item records                                               *)
(***************************************************************************)

\* itemEndDate: absent, a string that does not parse, or an ISO time.
EndTimes == {150, 750}
EndDates ==
    {[k |-> "absent", t |-> 0], [k |-> "bad", t |-> 0]}
    \cup {[k |-> "time", t |-> x] : x \in EndTimes}

\* One entry of estimatedAvailabilities: {} or {estimatedAvailableQuantity: q}.
AvailEntries ==
    {[hasQty |-> FALSE, qty |-> 0]}
    \cup {[hasQty |-> TRUE, qty |-> q] : q \in 0..MaxQty}

\* estimatedAvailabilities: key absent, [] or a list of one entry.
NoAvail == [has |-> FALSE, list |-> <<>>]
Avails ==
    {NoAvail, [has |-> TRUE, list |-> <<>>]}
    \cup {[has |-> TRUE, list |-> <<e>>] : e \in AvailEntries}

\* A record of the Browse API.  title: the key is present; images: the
\* imageUrl of 'image' followed by those of 'additionalImages' (<<>>: both
\* keys absent).  size = 0 with group = FALSE: the two marks _is_item_group
\* and _item_group_size are absent.  The keys description, shortDescription
\* and price are absent from every record of the model.
Items ==
    [end : EndDates, url : BOOLEAN, avail : Avails, title : BOOLEAN,
     images : {<<>>}, group : {FALSE}, size : {0}]

NullItem ==
    [end |-> [k |-> "absent", t |-> 0], url |-> FALSE, avail |-> NoAvail,
     title |-> FALSE, images |-> <<>>, group |-> FALSE, size |-> 0]

\* Python's truth value of a dict: {} is falsy.
IsEmptyDict(rec) ==
    /\ rec.end.k = "absent"
    /\ ~rec.url
    /\ ~rec.avail.has
    /\ ~rec.title
    /\ rec.images = <<>>
    /\ ~rec.group

\* The members of an item group: listings that differ in their availability.
GroupMembers ==
    {[end |-> [k |-> "absent", t |-> 0], url |-> TRUE, avail |-> a,
      title |-> TRUE, images |-> <<>>, group |-> FALSE, size |-> 0] : a \in Avails}

SeqsUpTo(S, n) == UNION {[1..k -> S] : k \in 0..n}

\* Answers of get_item_by_legacy_id.
ItemResponses ==
    {[kind |-> k, rec |-> NullItem] :
        k \in {"transport", "http_other", "http400_11006", "http400_other",
               "http400_nojson", "http400_noerrors"}}
    \cup {[kind |-> "ok", rec |-> r] : r \in Items}

\* Answers of get_items_by_item_group.
GroupResponses ==
    {[kind |-> k, items |-> <<>>] : k \in {"transport", "http"}}
    \cup {[kind |-> "ok", items |-> s] : s \in SeqsUpTo(GroupMembers, MaxGroup)}


(***************************************************************************)
(* eBay client: get_product_details and item groups                        *)
(***************************************************************************)

UnusedToken == [kind |-> "unused", e |-> 0]
UnusedGroup == [kind |-> "unused", items |-> <<>>]

\* product_data.get('estimatedAvailabilities', [{}])[0]
\*             .get('estimatedAvailableQuantity', 0)       (lines 193 and 239)
AvailableQuantity(rec) ==
    IF ~rec.avail.has
    THEN [exc |-> "none", qty |-> 0]
    ELSE IF rec.avail.list = <<>>
         THEN [exc |-> "IndexError", qty |-> 0]
         ELSE [exc |-> "none",
               qty |-> IF rec.avail.list[1].hasQty THEN rec.avail.list[1].qty ELSE 0]

\* total_quantity of lines 191-194 over the members 1..n of the group.
RECURSIVE TotalQuantity(_, _)
TotalQuantity(items, n) ==
    IF n = 0 THEN 0
    ELSE TotalQuantity(items, n - 1) + AvailableQuantity(items[n]).qty

\* Lines 186-198: the first member, marked, with the total written into its
\* first estimatedAvailabilities entry when it has one.
AggregateGroup(items) ==
    LET first == items[1]
        total == TotalQuantity(items, Len(items))
    IN  [first EXCEPT
            !.group = TRUE,
            !.size = Len(items),
            !.avail = IF first.avail.has /\ first.avail.list # <<>>
                      THEN [has |-> TRUE,
                            list |-> <<[hasQty |-> TRUE, qty |-> total]>>]
                      ELSE first.avail]

\* EbayAPI._get_item_group_details.  sent: the bearer tokens sent to the
\* item endpoints, in order.
GetItemGroupDetails(st, clock, tr, gr) ==
    LET tk == GetAccessToken(st, clock, tr)
        base == [exc |-> "none", none |-> TRUE, rec |-> NullItem,
                 st |-> tk.st, reqs |-> tk.reqs, sent |-> <<tk.token>>]
    IN  IF tk.exc # "none"
        THEN [base EXCEPT !.exc = tk.exc, !.sent = <<>>]
        ELSE IF gr.kind # "ok" \/ gr.items = <<>>
        THEN base
        ELSE IF \E i \in 1..Len(gr.items) :
                    AvailableQuantity(gr.items[i]).exc # "none"
        THEN [base EXCEPT !.exc = "IndexError"]
        ELSE [base EXCEPT !.none = FALSE, !.rec = AggregateGroup(gr.items)]

\* What the handler of HTTPError does with a failure of the group call
\* (lines 127-134: the bare except swallows every exception).
GroupFailure(g) ==
    IF g.exc # "none"
    THEN [g EXCEPT !.exc = "none", !.none = TRUE, !.rec = NullItem]
    ELSE g

\* What get_product_details does with a failure of _get_access_token
\* (line 96 is outside the try).
TokenFailure(tk) ==
    [exc |-> tk.exc, none |-> TRUE, rec |-> NullItem,
     st |-> tk.st, reqs |-> tk.reqs, sent |-> <<>>]

\* EbayAPI.get_product_details with env = [tok1, item, tok2, group]: the
\* answers of the token endpoint (first and second _get_access_token), of
\* get_item_by_legacy_id and of get_items_by_item_group.
GetProductDetails(st, clock, env) ==
    LET tk == GetAccessToken(st, clock, env.tok1)
        base == [exc |-> "none", none |-> TRUE, rec |-> NullItem,
                 st |-> tk.st, reqs |-> tk.reqs, sent |-> <<tk.token>>]
    IN  IF tk.exc # "none"
        THEN TokenFailure(tk)
        ELSE CASE env.item.kind = "ok" ->
                    [base EXCEPT !.none = FALSE, !.rec = env.item.rec]
               [] env.item.kind = "http400_11006" ->
                    LET g == GroupFailure(
                                GetItemGroupDetails(tk.st, clock, env.tok2, env.group))
                    IN  [g EXCEPT !.reqs = tk.reqs + g.reqs,
                                  !.sent = <<tk.token>> \o g.sent]
               [] OTHER -> base

(***************************************************************************)
(* eBay client: check_availability                                         *)
(***************************************************************************)

Verdict(ok, qty, reason) == [ok |-> ok, qty |-> qty, reason |-> reason]
NoVerdict == Verdict(FALSE, -1, "")

\* Lines 228-236: the listing has ended.  A date that does not parse raises
\* inside the try and the check is skipped.
ListingEnded(rec, clock) == rec.end.k = "time" /\ rec.end.t < clock

\* Lines 224-253 on the value get_product_details returned.
Availability(none, rec, clock) ==
    IF none \/ IsEmptyDict(rec)
    THEN [exc |-> "none", v |-> Verdict(FALSE, 0, "Failed to fetch product data")]
    ELSE IF ListingEnded(rec, clock)
    THEN [exc |-> "none", v |-> Verdict(FALSE, 0, "Listing has ended")]
    ELSE LET q == AvailableQuantity(rec)
         IN  IF q.exc # "none"
             THEN [exc |-> q.exc, v |-> NoVerdict]
             ELSE IF ~rec.url
             THEN [exc |-> "none", v |-> Verdict(FALSE, 0, "Item is not active")]
             ELSE IF q.qty > 0
             THEN [exc |-> "none", v |-> Verdict(TRUE, q.qty, "Available")]
             ELSE [exc |-> "none", v |-> Verdict(FALSE, 0, "Out of stock")]

\* EbayAPI.check_availability.
CheckAvailability(st, clock, env) ==
    LET pd == GetProductDetails(st, clock, env)
        av == Availability(pd.none, pd.rec, clock)
    IN  IF pd.exc # "none"
        THEN [pd EXCEPT !.none = TRUE, !.rec = NullItem] @@ [v |-> NoVerdict]
        ELSE [pd EXCEPT !.exc = av.exc] @@ [v |-> av.v]


(***************************************************************************)
(* eBay client: state and actions                                          *)
(***************************************************************************)

UnusedItem == [kind |-> "unused", rec |-> NullItem]
NoEnv == [tok1 |-> UnusedToken, item |-> UnusedItem,
          tok2 |-> UnusedToken, group |-> UnusedGroup]

EbayState == [access_token |-> access_token, token_expiry |-> token_expiry]

\* The answers the network can give to one call of get_product_details in
\* state st: only the requests the call issues get an answer.
TokenAnswers(st, clock, TS) ==
    IF TokenIsValid(st, clock) THEN {UnusedToken} ELSE TS

GroupEnvs(st, clock, t1, i, TS, GS) ==
    UNION { IF GetAccessToken(st, clock, t2).exc # "none"
            THEN {[tok1 |-> t1, item |-> i, tok2 |-> t2, group |-> UnusedGroup]}
            ELSE {[tok1 |-> t1, item |-> i, tok2 |-> t2, group |-> g] : g \in GS}
          : t2 \in TokenAnswers(st, clock, TS) }

ItemEnvs(st, clock, t1, TS, IS, GS) ==
    UNION { IF i.kind = "http400_11006"
            THEN GroupEnvs(st, clock, t1, i, TS, GS)
            ELSE {[NoEnv EXCEPT !.tok1 = t1, !.item = i]}
          : i \in IS }

EbayEnvs(st, clock, TS, IS, GS) ==
    UNION { LET tk == GetAccessToken(st, clock, t1)
            IN  IF tk.exc # "none"
                THEN {[NoEnv EXCEPT !.tok1 = t1]}
                ELSE ItemEnvs(tk.st, clock, t1, TS, IS, GS)
          : t1 \in TokenAnswers(st, clock, TS) }

EbayIdle ==
    [op |-> "init", in |-> NoEnv, pre |-> [access_token |-> NoToken, token_expiry |-> 0],
     exc |-> "none", none |-> TRUE, rec |-> NullItem,
     reqs |-> 0, sent |-> <<>>, tok |-> NoToken, v |-> NoVerdict]

\* EbayAPI.__init__ (lines 31-32).
InitEbay ==
    /\ access_token = NoToken
    /\ token_expiry = 0
    /\ ebay_log = EbayIdle

\* Time passes between two calls.
Tick ==
    /\ ebay_log = EbayIdle
    /\ \E d \in TickSteps :
          /\ now + d <= MaxTime
          /\ now' = now + d
    /\ UNCHANGED <<access_token, token_expiry, ebay_log, last_request_time, ali_log, scraperVars, toolVars>>

\* A call of _get_access_token.
EbayGetAccessToken ==
    /\ ebay_log = EbayIdle
    /\ \E tr \in TokenAnswers(EbayState, now, TokenResponses) :
          \E r \in {GetAccessToken(EbayState, now, tr)} :
              /\ access_token' = r.st.access_token
              /\ token_expiry' = r.st.token_expiry
              /\ ebay_log' = [EbayIdle EXCEPT
                                !.op = "_get_access_token",
                                !.in = [NoEnv EXCEPT !.tok1 = tr],
                                !.pre = EbayState,
                                !.exc = r.exc, !.reqs = r.reqs, !.tok = r.token]
    /\ UNCHANGED <<now, last_request_time, ali_log, scraperVars, toolVars>>

\* A call of get_product_details with the answers drawn from TS, IS and GS.
EbayGetProductDetailsOver(TS, IS, GS) ==
    /\ ebay_log = EbayIdle
    /\ \E env \in EbayEnvs(EbayState, now, TS, IS, GS) :
          \E r \in {GetProductDetails(EbayState, now, env)} :
              /\ access_token' = r.st.access_token
              /\ token_expiry' = r.st.token_expiry
              /\ ebay_log' = [EbayIdle EXCEPT
                                !.op = "get_product_details",
                                !.in = env,
                                !.pre = EbayState,
                                !.exc = r.exc, !.none = r.none, !.rec = r.rec,
                                !.reqs = r.reqs, !.sent = r.sent]
    /\ UNCHANGED <<now, last_request_time, ali_log, scraperVars, toolVars>>

\* A call of check_availability with the answers drawn from TS, IS and GS.
EbayCheckAvailabilityOver(TS, IS, GS) ==
    /\ ebay_log = EbayIdle
    /\ \E env \in EbayEnvs(EbayState, now, TS, IS, GS) :
          \E r \in {CheckAvailability(EbayState, now, env)} :
              /\ access_token' = r.st.access_token
              /\ token_expiry' = r.st.token_expiry
              /\ ebay_log' = [EbayIdle EXCEPT
                                !.op = "check_availability",
                                !.in = env,
                                !.pre = EbayState,
                                !.exc = r.exc, !.none = r.none, !.rec = r.rec,
                                !.reqs = r.reqs, !.sent = r.sent, !.v = r.v]
    /\ UNCHANGED <<now, last_request_time, ali_log, scraperVars, toolVars>>

\* The caller has taken the outcome of the call: the client is ready for
\* the next call.
EbayReturn ==
    /\ ebay_log # EbayIdle
    /\ ebay_log' = EbayIdle
    /\ UNCHANGED <<now, access_token, token_expiry, last_request_time, ali_log, scraperVars, toolVars>>

(***************************************************************************)
(* AliExpress client (src/aliexpress_api.py)                               *)
(***************************************************************************)

\* Config.MAX_REQUESTS_PER_SECOND and request_delay = 1.0 / that.
MAX_REQUESTS_PER_SECOND == 1
request_delay == 1 \div MAX_REQUESTS_PER_SECOND

\* A numeric field of the item: key absent, or an integer.
NoNumber == [has |-> FALSE, v |-> 0]
Number(n) == [has |-> TRUE, v |-> n]
StockValues == {NoNumber} \cup {Number(n) : n \in -1..MaxStock}

\* An image URL: name is the URL after its scheme, rel says that it is
\* protocol-relative ('//name' instead of 'https://name').
ImageUrl(rel, name) == [rel |-> rel, name |-> name]
NoImage == ImageUrl(FALSE, "")

\* salePrice: key absent (has is FALSE), an object (obj) with the keys min,
\* max, minPrice and maxPrice, each of which may be absent, or a value that
\* is not an object (null, a string, a number).
SalePrice(min, max, minPrice, maxPrice) ==
    [has |-> TRUE, obj |-> TRUE, min |-> min, max |-> max,
     minPrice |-> minPrice, maxPrice |-> maxPrice]
NoSalePrice ==
    [has |-> FALSE, obj |-> FALSE, min |-> NoNumber, max |-> NoNumber,
     minPrice |-> NoNumber, maxPrice |-> NoNumber]
NonObjectSalePrice == [NoSalePrice EXCEPT !.has = TRUE]

\* A description field of the item: key absent, a string (its characters), or
\* an object, empty or {html: ...}.
NoText == [kind |-> "absent", chars |-> <<>>]
StrText(chars) == [kind |-> "str", chars |-> chars]
HtmlObject(chars) == [kind |-> "obj", chars |-> chars]
EmptyObject == [kind |-> "emptyobj", chars |-> <<>>]

\* The flat price fields of the item and its two currency fields ("" when
\* the key is missing).
NoFlatPrice ==
    [currency |-> "", targetCurrency |-> "",
     minPrice |-> NoNumber, price |-> NoNumber, targetMinPrice |-> NoNumber,
     sku_min_price |-> NoNumber, maxPrice |-> NoNumber,
     targetMaxPrice |-> NoNumber, sku_max_price |-> NoNumber]

\* result.item when it is a non-empty object.  totalAvailableStock and stock
\* are integers when present; itemStatus and title are "absent" when the key
\* is missing; description and its three aliases are texts; offline is
\* "absent", "false" or "true"; mainImageUrl is NoImage when missing and
\* imageUrls is a list.  The availability checks read the first five fields.
AliItems ==
    [kind : {"obj"},
     totalAvailableStock : StockValues,
     stock : StockValues,
     itemStatus : {"absent", "offline", "active"},
     offline : {"absent", "false", "true"},
     title : {"absent", "Test Widget"},
     description : {NoText},
     productDescription : {NoText},
     detail : {NoText},
     descriptionUrl : {NoText},
     salePrice : {NoSalePrice},
     flat : {NoFlatPrice},
     mainImageUrl : {NoImage},
     imageUrls : {<<>>}]

\* result.item: key absent, null, {} or an object.
NullAliItem ==
    [kind |-> "absent", totalAvailableStock |-> NoNumber, stock |-> NoNumber,
     itemStatus |-> "absent", offline |-> "absent", title |-> "absent",
     description |-> NoText, productDescription |-> NoText,
     detail |-> NoText, descriptionUrl |-> NoText, salePrice |-> NoSalePrice,
     flat |-> NoFlatPrice, mainImageUrl |-> NoImage, imageUrls |-> <<>>]

AliItemValues ==
    {[NullAliItem EXCEPT !.kind = k] : k \in {"absent", "null", "empty"}}
    \cup {i \in AliItems :
            \* an object with no key at all is the "empty" one
            ~(/\ i.totalAvailableStock = NoNumber /\ i.stock = NoNumber
              /\ i.itemStatus = "absent" /\ i.offline = "absent"
              /\ i.title = "absent")}

\* result.status: key absent, null, a string, or an object with code and
\* data (0 and "absent": the key is missing).
AliStatuses ==
    {[kind |-> k, code |-> 0, data |-> "absent"] : k \in {"absent", "null", "str"}}
    \cup [kind : {"obj"}, code : {0, 200, 404}, data : {"absent", "success", "error"}]

OkStatus == [kind |-> "obj", code |-> 200, data |-> "success"]

\* The body of the answer: JSON null, a JSON list, or an object whose
\* 'result' is absent, null, a string, a list or an object.
AliBodies(IS) ==
    {[kind |-> k, result |-> "absent", status |-> OkStatus, item |-> NullAliItem] :
        k \in {"null", "list"}}
    \cup {[kind |-> "obj", result |-> r, status |-> OkStatus, item |-> NullAliItem] :
            r \in {"absent", "null", "str", "list"}}
    \cup {[kind |-> "obj", result |-> "obj", status |-> st, item |-> NullAliItem] :
            st \in AliStatuses \ {OkStatus}}
    \cup {[kind |-> "obj", result |-> "obj", status |-> OkStatus, item |-> i] :
            i \in IS}

NullBody ==
    [kind |-> "null", result |-> "absent", status |-> OkStatus, item |-> NullAliItem]

\* Answers of the item_detail_6 endpoint: a transport error, a non-2xx
\* status, a 2xx answer whose body is not JSON, or a 2xx answer with a body.
AliResponses(IS) ==
    {[kind |-> k, body |-> NullBody] : k \in {"transport", "http_error", "not_json"}}
    \cup {[kind |-> "json", body |-> b] : b \in AliBodies(IS)}

\* _rate_limit without the sleep.
RateLimit_NoSleep(last, clock) == clock

\* AliExpressAPI._rate_limit at time clock: the time after the sleep, which
\* is stored in last_request_time.
RateLimit(last, clock) ==
    IF clock - last < request_delay
    THEN clock + (request_delay - (clock - last))
    ELSE clock

\* Lines 64-80 on a decoded body: the exception that leaves them, and
\* whether None is returned.
CheckBody(body) ==
    IF body.kind = "null" \/ body.kind = "list" \/ body.result = "absent"
    THEN [exc |-> "none", none |-> TRUE]                     \* line 68
    ELSE IF body.result # "obj"
    THEN [exc |-> "AttributeError", none |-> TRUE]           \* line 73
    ELSE IF body.status.kind \in {"null", "str"}
    THEN [exc |-> "AttributeError", none |-> TRUE]           \* line 76
    ELSE IF \/ body.status.kind = "absent"
            \/ body.status.code # 200
            \/ body.status.data # "success"
    THEN [exc |-> "none", none |-> TRUE]                     \* line 76-78
    ELSE [exc |-> "none", none |-> FALSE]

\* AliExpressAPI.get_product_details after the throttle.
AliGetProductDetails(resp) ==
    IF resp.kind \in {"transport", "http_error", "not_json"}
    THEN [exc |-> "none", none |-> TRUE, body |-> NullBody]   \* lines 82-89
    ELSE LET c == CheckBody(resp.body)
         IN  [exc |-> c.exc, none |-> c.none,
              body |-> IF c.exc = "none" /\ ~c.none THEN resp.body ELSE NullBody]

\* The dict check_availability returns; stock_quantity is NoNumber for None
\* and for a missing key.
AliVerdict(available, reason, stock_quantity, product_title) ==
    [available |-> available, reason |-> reason,
     stock_quantity |-> stock_quantity, product_title |-> product_title]
NoAliVerdict == AliVerdict(FALSE, "", NoNumber, "")

\* Python's truth value of result.get('item', {}).
ItemIsEmpty(item) == item.kind \in {"absent", "null", "empty"}

\* Line 139: the item is offline.
IsOffline(item) == item.itemStatus = "offline" \/ item.offline = "true"

\* Lines 125-136: stock_quantity.
StockQuantity(item) ==
    IF item.totalAvailableStock.has THEN item.totalAvailableStock
    ELSE IF item.stock.has THEN item.stock
    ELSE NoNumber

\* Lines 115-149 on the item of a fetched record: is_available and reason
\* start as (True, 'Available'); a missing item sets them; otherwise the
\* stock check and then the offline check each overwrite them.
VerdictAfterStock(item) ==
    IF StockQuantity(item).has /\ StockQuantity(item).v <= 0
    THEN [available |-> FALSE, reason |-> "Out of stock"]
    ELSE [available |-> TRUE, reason |-> "Available"]

VerdictAfterOffline(item, before) ==
    IF IsOffline(item)
    THEN [available |-> FALSE, reason |-> "Product is offline"]
    ELSE before

ProductTitle(item) == IF item.title = "absent" THEN "N/A" ELSE item.title

ItemAvailability_StockLast(item) ==
    IF ItemIsEmpty(item)
    THEN AliVerdict(FALSE, "Product not found", NoNumber, "N/A")
    ELSE LET first == VerdictAfterOffline(item, [available |-> TRUE, reason |-> "Available"])
             last == IF StockQuantity(item).has /\ StockQuantity(item).v <= 0
                     THEN [available |-> FALSE, reason |-> "Out of stock"]
                     ELSE first
         IN  AliVerdict(last.available, last.reason, StockQuantity(item),
                        ProductTitle(item))

ItemAvailability(item) ==
    IF ItemIsEmpty(item)
    THEN AliVerdict(FALSE, "Product not found", NoNumber, "N/A")
    ELSE LET last == VerdictAfterOffline(item, VerdictAfterStock(item))
         IN  AliVerdict(last.available, last.reason, StockQuantity(item),
                        ProductTitle(item))

\* AliExpressAPI.check_availability after the throttle.
AliCheckAvailability(resp) ==
    LET pd == AliGetProductDetails(resp)
    IN  IF pd.exc # "none"
        THEN [exc |-> pd.exc, none |-> TRUE, v |-> NoAliVerdict]
        ELSE IF pd.none
        THEN [exc |-> "none", none |-> TRUE,
              v |-> AliVerdict(FALSE, "Failed to fetch product data", NoNumber, "")]
        ELSE [exc |-> "none", none |-> FALSE, v |-> ItemAvailability(pd.body.item)]

NoAliResponse == [kind |-> "unused", body |-> NullBody]

\* The dict get_product_price returns; formatted is the sequence of the
\* parts of the string.
PriceInfo(currency, min_price, max_price, formatted) ==
    [currency |-> currency, min_price |-> min_price, max_price |-> max_price,
     formatted |-> formatted]
\* Python's None where a string is expected.
NoneStr == "<None>"

NonePrice == <<>>
NoPriceInfo == PriceInfo("", NoNumber, NoNumber, NonePrice)

AliIdle ==
    [op |-> "init", in |-> NoAliResponse, exc |-> "none", none |-> TRUE,
     body |-> NullBody, v |-> NoAliVerdict, issued |-> 0, prev |-> 0,
     images |-> <<>>, price |-> NoPriceInfo, description |-> NoneStr]

\* AliExpressAPI.__init__ (line 19).
InitAli ==
    /\ last_request_time = 0
    /\ ali_log = AliIdle

\* Time passes between two calls of the AliExpress client.
AliTick ==
    /\ ali_log = AliIdle
    /\ now < StartTime + MaxAliTicks
    /\ now' = now + 1
    /\ UNCHANGED <<access_token, token_expiry, ebay_log, last_request_time, ali_log, scraperVars, toolVars>>

\* A call of get_product_details: the throttle, then the request.  issued is
\* the time at which the request is sent, prev the one of the request before.
AliGetProductDetailsCall ==
    /\ ali_log = AliIdle
    /\ RateLimit(last_request_time, now) <= StartTime + MaxAliTicks
    /\ \E resp \in AliResponses(AliItemValues) :
          \E r \in {AliGetProductDetails(resp)} :
              /\ now' = RateLimit(last_request_time, now)
              /\ last_request_time' = now'
              /\ ali_log' = [AliIdle EXCEPT
                               !.op = "get_product_details", !.in = resp,
                               !.exc = r.exc, !.none = r.none, !.body = r.body,
                               !.issued = now', !.prev = last_request_time]
    /\ UNCHANGED <<access_token, token_expiry, ebay_log, scraperVars, toolVars>>

\* A call of check_availability.
AliCheckAvailabilityCall ==
    /\ ali_log = AliIdle
    /\ RateLimit(last_request_time, now) <= StartTime + MaxAliTicks
    /\ \E resp \in AliResponses(AliItemValues) :
          \E r \in {AliCheckAvailability(resp)} :
              /\ now' = RateLimit(last_request_time, now)
              /\ last_request_time' = now'
              /\ ali_log' = [AliIdle EXCEPT
                               !.op = "check_availability", !.in = resp,
                               !.exc = r.exc, !.none = r.none, !.v = r.v,
                               !.issued = now', !.prev = last_request_time]
    /\ UNCHANGED <<access_token, token_expiry, ebay_log, scraperVars, toolVars>>

\* The caller has taken the outcome of the call.
AliReturn ==
    /\ ali_log # AliIdle
    /\ ali_log' = AliIdle
    /\ UNCHANGED <<now, access_token, token_expiry, ebay_log, last_request_time, scraperVars, toolVars>>

(***************************************************************************)
(* URL resolver (src/url_parser.py)                                        *)
(***************************************************************************)

\* What a call returns or raises.
Returned(val) == [exc |-> "none", val |-> val]
Raised(exc, val) == [exc |-> exc, val |-> val]

\* A URL string, by its parts: the netloc urlparse finds in it ("" for a URL
\* without '//'), the kind of its path with the text in it, and its query
\* parameters in order.
\*   item_html: /item/<text>.html     item: /item/<text>
\*   itm: /itm/<text>                 other: any other path
\* The field digits holds <text>; it is a digit run in every URL the scraper
\* specifications process.
UrlWith(host, path, digits, query) ==
    [host |-> host, path |-> path, digits |-> digits, query |-> query]

\* One query parameter key=value.
Param(key, val) == [key |-> key, val |-> val]

\* A URL with one query parameter, or with none (qkey = "none").
Url(host, path, digits, qkey, qval) ==
    UrlWith(host, path, digits,
            IF qkey = "none" THEN <<>> ELSE <<Param(qkey, qval)>>)

\* The empty string, and None passed for a URL.
EmptyUrl == Url("", "other", "", "none", "")
NoneUrl == Url(NoneStr, "other", "", "none", "")

\* str.lower() of a netloc.
Lower(host) ==
    CASE host = "WWW.ALIEXPRESS.COM" -> "www.aliexpress.com"
      [] host = "WWW.EBAY.COM" -> "www.ebay.com"
      [] OTHER -> host

\* The marketplace domains that occur in a lower-cased netloc.
DomainsIn(host) ==
    CASE host = "www.aliexpress.com" -> {"aliexpress.com"}
      [] host = "aliexpress.us" -> {"aliexpress.us"}
      [] host = "m.aliexpress.ru" -> {"aliexpress.ru"}
      [] host = "www.ebay.com" -> {"ebay.com"}
      [] host = "aliexpress.com.ebay.com" -> {"aliexpress.com", "ebay.com"}
      [] OTHER -> {}

\* urllib.parse.urlparse: urlsplit raises ValueError("Invalid IPv6 URL") on
\* a netloc that has '[' without ']' or ']' without '['.
UnbalancedBracket(host) == host \in {"[www.aliexpress.com", "www.ebay.com]"}

urlparse(url) ==
    IF UnbalancedBracket(url.host)
    THEN Raised("ValueError", [netloc |-> "", query |-> <<>>])
    ELSE Returned([netloc |-> url.host, query |-> url.query])

\* `not url`: None and the empty string.
IsFalsy(url) == url = EmptyUrl \/ url = NoneUrl

validate_aliexpress_url(url) ==
    IF IsFalsy(url) THEN Returned(FALSE)
    ELSE LET parsed == urlparse(url)
         IN  IF parsed.exc # "none" THEN Raised(parsed.exc, FALSE)
             ELSE Returned(DomainsIn(Lower(parsed.val.netloc))
                             \cap {"aliexpress.com", "aliexpress.us", "aliexpress.ru"} # {})

validate_ebay_url(url) ==
    IF IsFalsy(url) THEN Returned(FALSE)
    ELSE LET parsed == urlparse(url)
         IN  IF parsed.exc # "none" THEN Raised(parsed.exc, FALSE)
             ELSE Returned("ebay.com" \in DomainsIn(Lower(parsed.val.netloc)))

detect_marketplace(url) ==
    LET ali == validate_aliexpress_url(url)
        ebay == validate_ebay_url(url)
    IN  IF ali.exc # "none" THEN Raised(ali.exc, NoneStr)
        ELSE IF ali.val THEN Returned("aliexpress")
        ELSE IF ebay.exc # "none" THEN Raised(ebay.exc, NoneStr)
        ELSE IF ebay.val THEN Returned("ebay")
        ELSE Returned("unknown")

\* The digit runs among the texts of the model, and the longest digit run a
\* text starts with (what (\d+) matches right after /item/ or /itm/).
DigitRuns == {"1005004049949624", "123456789012", "42", "12", "99"}
LeadingDigits(text) ==
    IF text \in DigitRuns THEN text
    ELSE IF text = "12abc" THEN "12"
    ELSE ""

\* re.search(r'/item/(\d+)\.html', url), r'/item/(\d+)' and r'/itm/(\d+)':
\* the group matched, NoneStr for no match.
SearchItemHtml(url) ==
    IF url.path = "item_html" /\ url.digits # "" /\ LeadingDigits(url.digits) = url.digits
    THEN url.digits ELSE NoneStr

SearchItem(url) ==
    IF url.path \in {"item_html", "item"} /\ LeadingDigits(url.digits) # ""
    THEN LeadingDigits(url.digits) ELSE NoneStr

SearchItm(url) ==
    IF url.path = "itm" /\ LeadingDigits(url.digits) # ""
    THEN LeadingDigits(url.digits) ELSE NoneStr

\* parse_qs(query)[key][0], NoneStr when key is not in the dictionary:
\* parse_qs leaves out the parameters with a blank value.
FirstParam(query, key) ==
    LET at == {i \in 1..Len(query) : query[i].key = key /\ query[i].val # ""}
    IN  IF at = {} THEN NoneStr
        ELSE query[CHOOSE i \in at : \A j \in at : i <= j].val

\* re.search raises TypeError on None.
extract_product_id(url) ==
    IF url = NoneUrl THEN Raised("TypeError", NoneStr)
    ELSE IF SearchItemHtml(url) # NoneStr THEN Returned(SearchItemHtml(url))
    ELSE IF SearchItem(url) # NoneStr THEN Returned(SearchItem(url))
    ELSE LET parsed == urlparse(url)
         IN  IF parsed.exc # "none" THEN Raised(parsed.exc, NoneStr)
             ELSE IF FirstParam(parsed.val.query, "productId") # NoneStr
             THEN Returned(FirstParam(parsed.val.query, "productId"))
             ELSE IF FirstParam(parsed.val.query, "product_id") # NoneStr
             THEN Returned(FirstParam(parsed.val.query, "product_id"))
             ELSE Returned(NoneStr)

\* f"https://www.aliexpress.com/item/{product_id}.html"
normalize_url(url) ==
    LET product_id == extract_product_id(url)
    IN  IF product_id.exc # "none" THEN Raised(product_id.exc, url)
        ELSE IF product_id.val = NoneStr THEN Returned(url)
        ELSE Returned(Url("www.aliexpress.com", "item_html", product_id.val, "none", ""))

extract_ebay_item_id(url) ==
    IF url = NoneUrl THEN Raised("TypeError", NoneStr)
    ELSE IF SearchItm(url) # NoneStr THEN Returned(SearchItm(url))
    ELSE LET parsed == urlparse(url)
         IN  IF parsed.exc # "none" THEN Raised(parsed.exc, NoneStr)
             ELSE IF FirstParam(parsed.val.query, "item") # NoneStr
             THEN Returned(FirstParam(parsed.val.query, "item"))
             ELSE IF FirstParam(parsed.val.query, "itemId") # NoneStr
             THEN Returned(FirstParam(parsed.val.query, "itemId"))
             ELSE Returned(NoneStr)

\* No call made yet on url_parser.  val is the string a call returns, out
\* the URL normalize_url returns, fed_back whether the URL passed in is the
\* one the call before returned.
UrlIdle ==
    [op |-> "init", url |-> EmptyUrl, exc |-> "none", val |-> NoneStr,
     out |-> EmptyUrl, fed_back |-> FALSE]

(***************************************************************************)
(* AliExpress client: title, description, price, images                    *)
(***************************************************************************)

\* get_product_title answering 'N/A' when the fetch returned no data.
AliGetProductTitle_NaOnNoData(resp) ==
    LET pd == AliGetProductDetails(resp)
    IN  IF pd.exc # "none" THEN Raised(pd.exc, NoneStr)
        ELSE IF pd.none THEN Returned("N/A")
        ELSE IF pd.body.item.kind = "null" THEN Raised("AttributeError", NoneStr)
        ELSE IF pd.body.item.title = "absent" THEN Returned("N/A")
        ELSE Returned(pd.body.item.title)

\* AliExpressAPI.get_product_title (the alias 'subject' is absent from the
\* items of the model).  result.get('item', {}) is None for a null item and
\* item.get raises.
AliGetProductTitle(resp) ==
    LET pd == AliGetProductDetails(resp)
    IN  IF pd.exc # "none" THEN Raised(pd.exc, NoneStr)
        ELSE IF pd.none THEN Returned(NoneStr)
        ELSE IF pd.body.item.kind = "null" THEN Raised("AttributeError", NoneStr)
        ELSE IF pd.body.item.title = "absent" THEN Returned("N/A")
        ELSE Returned(pd.body.item.title)

\* Python's truth value of a description field: None, '' and {} are falsy.
TextIsTruthy(t) == (t.kind = "str" /\ t.chars # <<>>) \/ t.kind = "obj"

\* Python's `x or y` on two description fields.
PyOrText(x, y) == IF TextIsTruthy(x) THEN x ELSE y

\* The position of the first '>' of chars at or after position i, or 0.
RECURSIVE FirstClose(_, _)
FirstClose(chars, i) ==
    IF i > Len(chars) THEN 0
    ELSE IF chars[i] = ">" THEN i
    ELSE FirstClose(chars, i + 1)

\* re.sub(r'<[^>]+>', '', chars): from the left, a '<' that is followed by
\* at least one character other than '>' and then by '>' is removed with
\* everything up to that '>'.
RECURSIVE RemoveTags(_)
RemoveTags(chars) ==
    IF chars = <<>> THEN <<>>
    ELSE LET close == FirstClose(chars, 2)
         IN  IF Head(chars) = "<" /\ close >= 3
             THEN RemoveTags(SubSeq(chars, close + 1, Len(chars)))
             ELSE <<Head(chars)>> \o RemoveTags(Tail(chars))

IsSpace(c) == c \in {" ", "\n"}

\* re.sub(r'\s+', ' ', chars): every run of whitespace becomes one space.
RECURSIVE CollapseSpaces(_)
CollapseSpaces(chars) ==
    IF chars = <<>> THEN <<>>
    ELSE IF ~IsSpace(Head(chars)) THEN <<Head(chars)>> \o CollapseSpaces(Tail(chars))
    ELSE IF Len(chars) > 1 /\ IsSpace(chars[2]) THEN CollapseSpaces(Tail(chars))
    ELSE <<" ">> \o CollapseSpaces(Tail(chars))

\* str.strip().
RECURSIVE Strip(_)
Strip(chars) ==
    IF chars = <<>> THEN <<>>
    ELSE IF IsSpace(Head(chars)) THEN Strip(Tail(chars))
    ELSE IF IsSpace(chars[Len(chars)]) THEN Strip(SubSeq(chars, 1, Len(chars) - 1))
    ELSE chars

\* The string made of the characters.
RECURSIVE Join(_)
Join(chars) == IF chars = <<>> THEN "" ELSE Head(chars) \o Join(Tail(chars))

\* Lines 314-319: the first truthy of the four description fields, or the
\* last of them.
ChosenDescription(item) ==
    PyOrText(item.description,
             PyOrText(item.productDescription,
                      PyOrText(item.detail, item.descriptionUrl)))

\* AliExpressAPI.get_product_description.  re.sub raises TypeError on a
\* description that is an object.
AliGetProductDescription(resp) ==
    LET pd == AliGetProductDetails(resp)
    IN  IF pd.exc # "none" THEN Raised(pd.exc, NoneStr)
        ELSE IF pd.none THEN Returned(NoneStr)
        ELSE IF pd.body.item.kind = "null" THEN Raised("AttributeError", NoneStr)
        ELSE LET description == ChosenDescription(pd.body.item)
             IN  IF ~TextIsTruthy(description) THEN Returned("N/A")
                 ELSE IF description.kind = "obj" THEN Raised("TypeError", NoneStr)
                 ELSE LET cleaned == Strip(CollapseSpaces(RemoveTags(description.chars)))
                      IN  IF cleaned = <<>> THEN Returned("N/A")
                          ELSE Returned(Join(cleaned))

\* The formatted price (lines 279-287) as the sequence of its parts.
FormatPrice(currency, min_price, max_price) ==
    IF min_price.has /\ max_price.has
    THEN IF min_price = max_price
         THEN <<currency, min_price.v>>
         ELSE <<currency, min_price.v, "-", max_price.v>>
    ELSE IF min_price.has
    THEN <<currency, min_price.v>>
    ELSE <<"N/A">>

\* Python's `x or y` on two optional numbers: x when it is truthy (present
\* and not 0), else y.
PyOr(x, y) == IF x.has /\ x.v # 0 THEN x ELSE y

\* Python's `x or y` on two optional strings.
PyOrStr(x, y) == IF x # "" THEN x ELSE y

\* Lines 253-294 on the item.  sale_price = item.get('salePrice', {}) is the
\* empty object when the key is missing, so isinstance(sale_price, dict)
\* holds for a missing key and for an object, and the flat fields are read
\* only when salePrice is present and is not an object.
ItemPrice(item) ==
    LET currency == PyOrStr(item.flat.currency,
                            PyOrStr(item.flat.targetCurrency, "USD"))
        is_dict == ~item.salePrice.has \/ item.salePrice.obj
        min_price ==
            IF is_dict
            THEN PyOr(item.salePrice.min, item.salePrice.minPrice)
            ELSE PyOr(item.flat.minPrice, PyOr(item.flat.price,
                     PyOr(item.flat.targetMinPrice, item.flat.sku_min_price)))
        max_price ==
            IF is_dict
            THEN PyOr(item.salePrice.max, item.salePrice.maxPrice)
            ELSE PyOr(item.flat.maxPrice,
                     PyOr(item.flat.targetMaxPrice, item.flat.sku_max_price))
    IN  PriceInfo(currency, min_price, max_price,
                  FormatPrice(currency, min_price, max_price))

\* AliExpressAPI.get_product_price.
AliGetProductPrice(resp) ==
    LET pd == AliGetProductDetails(resp)
    IN  IF pd.exc # "none" THEN Raised(pd.exc, NoPriceInfo)
        ELSE IF pd.none
        THEN Returned(PriceInfo("N/A", NoNumber, NoNumber, <<"N/A">>))
        ELSE IF pd.body.item.kind = "null" THEN Raised("AttributeError", NoPriceInfo)
        ELSE Returned(ItemPrice(pd.body.item))

\* Lines 197-206: remove duplicates while preserving order.
RECURSIVE UniqueImages(_, _, _)
UniqueImages(images, seen, unique) ==
    IF images = <<>>
    THEN unique
    ELSE LET img == Head(images)
             fixed == [img EXCEPT !.rel = FALSE]
         IN  IF img \notin seen
             THEN UniqueImages(Tail(images), seen \cup {fixed}, Append(unique, fixed))
             ELSE UniqueImages(Tail(images), seen, unique)

\* AliExpressAPI.get_product_images (of the aliases, mainImageUrl and
\* imageUrls are the ones the items of the model carry).
AliGetProductImages(resp) ==
    LET pd == AliGetProductDetails(resp)
        item == pd.body.item
        main == IF item.mainImageUrl = NoImage THEN <<>> ELSE <<item.mainImageUrl>>
    IN  IF pd.exc # "none" THEN Raised(pd.exc, <<>>)
        ELSE IF pd.none THEN Returned(<<>>)
        ELSE IF item.kind = "null" THEN Raised("AttributeError", <<>>)
        ELSE Returned(UniqueImages(main \o item.imageUrls, {}, <<>>))

(***************************************************************************)
(* eBay client: title, description, price, images                          *)
(***************************************************************************)

\* An accessor of the eBay client: what it returns or raises, and the token
\* cache after it.
EbayReturned(pd, val) == [exc |-> "none", val |-> val, st |-> pd.st]
EbayRaised(pd, val) == [exc |-> pd.exc, val |-> val, st |-> pd.st]

EbayGetProductTitle(st, clock, env) ==
    LET pd == GetProductDetails(st, clock, env)
    IN  IF pd.exc # "none" THEN EbayRaised(pd, NoneStr)
        ELSE IF pd.none \/ IsEmptyDict(pd.rec) THEN EbayReturned(pd, NoneStr)
        ELSE IF pd.rec.title THEN EbayReturned(pd, "Test Widget")
        ELSE EbayReturned(pd, "Unknown Product")

EbayGetProductDescription(st, clock, env) ==
    LET pd == GetProductDetails(st, clock, env)
    IN  IF pd.exc # "none" THEN EbayRaised(pd, NoneStr)
        ELSE IF pd.none \/ IsEmptyDict(pd.rec) THEN EbayReturned(pd, NoneStr)
        ELSE EbayReturned(pd, "N/A")

EbayGetProductPrice(st, clock, env) ==
    LET pd == GetProductDetails(st, clock, env)
    IN  IF pd.exc # "none" THEN EbayRaised(pd, NonePrice)
        ELSE EbayReturned(pd, <<"N/A">>)

EbayGetProductImages(st, clock, env) ==
    LET pd == GetProductDetails(st, clock, env)
    IN  IF pd.exc # "none" THEN EbayRaised(pd, <<>>)
        ELSE IF pd.none \/ IsEmptyDict(pd.rec) THEN EbayReturned(pd, <<>>)
        ELSE EbayReturned(pd, pd.rec.images)

(***************************************************************************)
(* Image downloader (src/image_downloader.py)                              *)
(***************************************************************************)

\* Config.DOWNLOAD_FOLDER / <name>; NoFolder is None.
Folder(name) == [base |-> "downloads", name |-> name]
NoFolder == [base |-> "", name |-> ""]

\* The file <folder>/<product_id>_image_<idx>.jpg.
ImageFile(folder, product_id, idx) ==
    [folder |-> folder, product_id |-> product_id, idx |-> idx]

\* The folder itself on the disk, once mkdir has made it.
FolderEntry(folder) == [folder |-> folder, product_id |-> "", idx |-> 0]

\* The parameters of download_product_images (line 84), besides self.
DownloadParameters == {"product_id", "image_urls"}

\* How the calls of download_image of one run end: lost are the positions
\* whose call returns False and leaves no file (requests.get or
\* raise_for_status raises, or Image.open cannot decode the content: lines
\* 58-62 come before the file is opened), partial the positions whose
\* img.save (line 73) raises after it has created the file and the file
\* stays; a call at any other position writes the file and returns True.
Failing(lost, partial) == [lost |-> lost, partial |-> partial]
NoneFailing == Failing({}, {})

\* ImageDownloader.create_product_folder(product_id): the folder is named by
\* the product id.
create_product_folder(product_id) == Folder(product_id)

\* download_product_images testing for the file of the position before.
DownloadProductImages_SkipOffByOne(product_id, image_urls, fs, failing) ==
    LET product_folder == create_product_folder(product_id)
        n == Len(image_urls)
        existing == {i \in 1..n : ImageFile(product_folder, product_id, i - 1) \in fs}
        requested == (1..n) \ existing
        succeeded == requested \ (failing.lost \cup failing.partial)
        written == requested \ failing.lost
    IN  IF image_urls = <<>>
        THEN [exc |-> "none", total |-> 0, downloaded |-> 0, failed |-> 0,
              folder |-> NoFolder, fs |-> fs, requested |-> {}, written |-> {}]
        ELSE [exc |-> "none", total |-> n,
              downloaded |-> Cardinality(existing) + Cardinality(succeeded),
              failed |-> Cardinality(requested \ succeeded),
              folder |-> product_folder,
              fs |-> fs \cup {FolderEntry(product_folder)}
                        \cup {ImageFile(product_folder, product_id, i) : i \in written},
              requested |-> requested, written |-> written]

\* download_product_images downloading over the files that exist.
DownloadProductImages_NoSkip(product_id, image_urls, fs, failing) ==
    LET product_folder == create_product_folder(product_id)
        n == Len(image_urls)
        existing == {i \in 1..n : ImageFile(product_folder, product_id, i) \in fs}
        requested == 1..n
        succeeded == requested \ (failing.lost \cup failing.partial)
        written == requested \ failing.lost
    IN  IF image_urls = <<>>
        THEN [exc |-> "none", total |-> 0, downloaded |-> 0, failed |-> 0,
              folder |-> NoFolder, fs |-> fs, requested |-> {}, written |-> {}]
        ELSE [exc |-> "none", total |-> n,
              downloaded |-> Cardinality(existing) + Cardinality(succeeded),
              failed |-> Cardinality(requested \ succeeded),
              folder |-> product_folder,
              fs |-> fs \cup {FolderEntry(product_folder)}
                        \cup {ImageFile(product_folder, product_id, i) : i \in written},
              requested |-> requested, written |-> written]

\* download_product_images leaving its loop at the first failed download.
DownloadProductImages_StopAtFailure(product_id, image_urls, fs, failing) ==
    LET product_folder == create_product_folder(product_id)
        n == Len(image_urls)
        existing == {i \in 1..n : ImageFile(product_folder, product_id, i) \in fs}
        requested == {i \in (1..n) \ existing : \A k \in 1..(i - 1) : k \in existing \/ k \notin failing.lost}
        succeeded == requested \ (failing.lost \cup failing.partial)
        written == requested \ failing.lost
    IN  IF image_urls = <<>>
        THEN [exc |-> "none", total |-> 0, downloaded |-> 0, failed |-> 0,
              folder |-> NoFolder, fs |-> fs, requested |-> {}, written |-> {}]
        ELSE [exc |-> "none", total |-> n,
              downloaded |-> Cardinality(existing) + Cardinality(succeeded),
              failed |-> Cardinality(requested \ succeeded),
              folder |-> product_folder,
              fs |-> fs \cup {FolderEntry(product_folder)}
                        \cup {ImageFile(product_folder, product_id, i) : i \in written},
              requested |-> requested, written |-> written]

\* download_product_images creating the product folder before it looks at
\* the list.
DownloadProductImages_FolderFirst(product_id, image_urls, fs, failing) ==
    LET product_folder == create_product_folder(product_id)
        n == Len(image_urls)
        existing == {i \in 1..n : ImageFile(product_folder, product_id, i) \in fs}
        requested == (1..n) \ existing
        succeeded == requested \ (failing.lost \cup failing.partial)
        written == requested \ failing.lost
    IN  IF image_urls = <<>>
        THEN [exc |-> "none", total |-> 0, downloaded |-> 0, failed |-> 0,
              folder |-> NoFolder, fs |-> fs \cup {FolderEntry(product_folder)},
              requested |-> {}, written |-> {}]
        ELSE [exc |-> "none", total |-> n,
              downloaded |-> Cardinality(existing) + Cardinality(succeeded),
              failed |-> Cardinality(requested \ succeeded),
              folder |-> product_folder,
              fs |-> fs \cup {FolderEntry(product_folder)}
                        \cup {ImageFile(product_folder, product_id, i) : i \in written},
              requested |-> requested, written |-> written]

\* ImageDownloader.download_product_images(product_id, image_urls) with fs
\* the files on disk and failing the way the calls of download_image end.
\* requested are the positions for which download_image is called, written
\* the positions whose file the call creates.
DownloadProductImages(product_id, image_urls, fs, failing) ==
    LET product_folder == create_product_folder(product_id)
        n == Len(image_urls)
        existing == {i \in 1..n : ImageFile(product_folder, product_id, i) \in fs}
        requested == (1..n) \ existing
        succeeded == requested \ (failing.lost \cup failing.partial)
        written == requested \ failing.lost
    IN  IF image_urls = <<>>
        THEN [exc |-> "none", total |-> 0, downloaded |-> 0, failed |-> 0,
              folder |-> NoFolder, fs |-> fs, requested |-> {}, written |-> {}]
        ELSE [exc |-> "none", total |-> n,
              downloaded |-> Cardinality(existing) + Cardinality(succeeded),
              failed |-> Cardinality(requested \ succeeded),
              folder |-> product_folder,
              fs |-> fs \cup {FolderEntry(product_folder)}
                        \cup {ImageFile(product_folder, product_id, i) : i \in written},
              requested |-> requested, written |-> written]

\* A call download_product_images(product_id, image_urls, <keyword>=<value>)
\* with keywords the record of the keyword arguments:
\* Python raises TypeError before the body runs when a keyword is not a
\* parameter of the method.
CallDownloadProductImages(product_id, image_urls, keywords, fs, failing) ==
    IF DOMAIN keywords \subseteq DownloadParameters
    THEN DownloadProductImages(product_id, image_urls, fs, failing)
    ELSE [exc |-> "TypeError", total |-> 0, downloaded |-> 0, failed |-> 0,
          folder |-> NoFolder, fs |-> fs, requested |-> {}, written |-> {}]

\* No earlier call with the same inputs.
NoPrevDownload ==
    [op |-> "none", product_id |-> "", image_urls |-> <<>>, failed |-> 0,
     written |-> {}]

\* No call made yet on the ImageDownloader.
DlIdle ==
    [op |-> "init", product_id |-> "", image_urls |-> <<>>,
     failing |-> NoneFailing, before |-> {}, total |-> 0, downloaded |-> 0,
     failed |-> 0, folder |-> NoFolder, requested |-> {}, written |-> {},
     prev |-> NoPrevDownload]

(***************************************************************************)
(* Orchestrator: process_single_link (src/main.py)                         *)
(***************************************************************************)

\* The state of the two clients and of the downloader, on which a call of
\* process_single_link works.
Clients ==
    [now |-> now, last_request_time |-> last_request_time,
     access_token |-> access_token, token_expiry |-> token_expiry,
     files |-> files]

\* Lines 43-58: the result dict as it is created.
InitialResult(url, row_index, folder_name) ==
    [url |-> url,
     row_index |-> row_index,
     row_number |-> IF row_index.has THEN Number(row_index.v + 1) ELSE NoNumber,
     folder_name |-> folder_name,
     marketplace |-> NoneStr,
     product_id |-> NoneStr,
     title |-> NoneStr,
     description |-> NoneStr,
     price |-> NonePrice,
     available |-> FALSE,
     stock_quantity |-> NoNumber,
     images_downloaded |-> 0,
     folder |-> NoFolder,
     error |-> NoneStr]

\* How a call of process_single_link ends: the exception that leaves it
\* ("none": it returns result), the result dict at that moment, the clients
\* after it and the number of client calls it has made.
Outcome(exc, result, cl, fetches) ==
    [exc |-> exc, result |-> result, cl |-> cl, fetches |-> fetches]

\* AliExpressAPI._rate_limit of the next request: the clients after the sleep.
Throttled(cl) ==
    [cl EXCEPT !.now = RateLimit(cl.last_request_time, cl.now),
               !.last_request_time = RateLimit(cl.last_request_time, cl.now)]

\* The clients with the token cache st of the eBay client.
WithTokenCache(cl, st) ==
    [cl EXCEPT !.access_token = st.access_token, !.token_expiry = st.token_expiry]

\* Lines 125 and 183: folder_name or row_number or product_id.
FolderArgument(result, product_id) ==
    IF result.folder_name # NoneStr /\ result.folder_name # ""
    THEN [from |-> "folder_name", name |-> result.folder_name, number |-> 0]
    ELSE IF result.row_number.has /\ result.row_number.v # 0
    THEN [from |-> "row_number", name |-> "", number |-> result.row_number.v]
    ELSE [from |-> "product_id", name |-> product_id, number |-> 0]

\* Lines 122-133 and 180-191: the download stage.
DownloadStage(result, product_id, image_urls, cl, failing, fetches) ==
    IF image_urls = <<>>
    THEN Outcome("none", result, cl, fetches)
    ELSE LET d == CallDownloadProductImages(
                     product_id, image_urls,
                     [custom_folder_name |-> FolderArgument(result, product_id)],
                     cl.files, failing)
         IN  IF d.exc # "none"
             THEN Outcome(d.exc, result, cl, fetches)
             ELSE Outcome("none",
                          [result EXCEPT !.images_downloaded = d.downloaded,
                                         !.folder = d.folder],
                          [cl EXCEPT !.files = d.fs], fetches)

\* _process_aliexpress asking for the title before it looks at the id.
ProcessAliexpress_FetchFirst(url, result, cl, ans) ==
    LET extracted == extract_product_id(url)
        product_id == extracted.val
        title == AliGetProductTitle(ans.ali[1])
        description == AliGetProductDescription(ans.ali[2])
        price_info == AliGetProductPrice(ans.ali[3])
        availability == AliCheckAvailability(ans.ali[4])
        image_urls == AliGetProductImages(ans.ali[5])
        c1 == Throttled(cl)
        c2 == Throttled(c1)
        c3 == Throttled(c2)
        c4 == Throttled(c3)
        c5 == Throttled(c4)
        r0 == [result EXCEPT !.product_id = product_id]
        r3 == [r0 EXCEPT !.title = title.val,
                         !.description = description.val,
                         !.price = price_info.val.formatted]
        r4 == [r3 EXCEPT !.available = availability.v.available,
                         !.stock_quantity = availability.v.stock_quantity]
    IN  IF extracted.exc # "none" THEN Outcome(extracted.exc, result, cl, 0)
        ELSE IF product_id = NoneStr
        THEN Outcome("none",
                     [result EXCEPT !.error = "Could not extract product ID from URL"],
                     c1, 1)
        ELSE IF title.exc # "none" THEN Outcome(title.exc, r0, c1, 1)
        ELSE IF description.exc # "none" THEN Outcome(description.exc, r0, c2, 2)
        ELSE IF price_info.exc # "none" THEN Outcome(price_info.exc, r0, c3, 3)
        ELSE IF availability.exc # "none" THEN Outcome(availability.exc, r3, c4, 4)
        ELSE IF image_urls.exc # "none" THEN Outcome(image_urls.exc, r4, c5, 5)
        ELSE DownloadStage(r4, product_id, image_urls.val, c5, ans.failing, 5)

\* ProductScraper._process_aliexpress.  ans.ali[k] is the answer of the
\* endpoint to the k-th fetch, ans.failing the way the image downloads end.
ProcessAliexpress(url, result, cl, ans) ==
    LET extracted == extract_product_id(url)
        product_id == extracted.val
        title == AliGetProductTitle(ans.ali[1])
        description == AliGetProductDescription(ans.ali[2])
        price_info == AliGetProductPrice(ans.ali[3])
        availability == AliCheckAvailability(ans.ali[4])
        image_urls == AliGetProductImages(ans.ali[5])
        c1 == Throttled(cl)
        c2 == Throttled(c1)
        c3 == Throttled(c2)
        c4 == Throttled(c3)
        c5 == Throttled(c4)
        r0 == [result EXCEPT !.product_id = product_id]
        r3 == [r0 EXCEPT !.title = title.val,
                         !.description = description.val,
                         !.price = price_info.val.formatted]
        r4 == [r3 EXCEPT !.available = availability.v.available,
                         !.stock_quantity = availability.v.stock_quantity]
    IN  IF extracted.exc # "none" THEN Outcome(extracted.exc, result, cl, 0)
        ELSE IF product_id = NoneStr
        THEN Outcome("none",
                     [result EXCEPT !.error = "Could not extract product ID from URL"],
                     cl, 0)
        ELSE IF title.exc # "none" THEN Outcome(title.exc, r0, c1, 1)
        ELSE IF description.exc # "none" THEN Outcome(description.exc, r0, c2, 2)
        ELSE IF price_info.exc # "none" THEN Outcome(price_info.exc, r0, c3, 3)
        ELSE IF availability.exc # "none" THEN Outcome(availability.exc, r3, c4, 4)
        ELSE IF image_urls.exc # "none" THEN Outcome(image_urls.exc, r4, c5, 5)
        ELSE DownloadStage(r4, product_id, image_urls.val, c5, ans.failing, 5)

\* The value of the one call in S: the statements after a call work on the
\* value it returned.
ValueOf(S) == CHOOSE o \in S : TRUE

\* _process_ebay after get_product_images (lines 178-191); r0 is the result
\* with product_id set.
EbayAfterImages(r0, item_id, cl, ans, title, description, price_info, availability, image_urls) ==
    LET r4 == [r0 EXCEPT !.title = title.val,
                         !.description = description.val,
                         !.price = price_info.val,
                         !.available = availability.v.ok,
                         !.stock_quantity = Number(availability.v.qty)]
    IN  IF image_urls.exc # "none"
        THEN Outcome(image_urls.exc, r4, WithTokenCache(cl, image_urls.st), 5)
        ELSE DownloadStage(r4, item_id, image_urls.val,
                           WithTokenCache(cl, image_urls.st), ans.failing, 5)

\* _process_ebay after check_availability (lines 164-178).
EbayAfterAvailability(r0, item_id, cl, ans, title, description, price_info, availability) ==
    IF availability.exc # "none"
    THEN Outcome(availability.exc,
                 [r0 EXCEPT !.title = title.val,
                            !.description = description.val,
                            !.price = price_info.val],
                 WithTokenCache(cl, availability.st), 4)
    ELSE ValueOf({EbayAfterImages(r0, item_id, cl, ans, title, description,
                                  price_info, availability, image_urls) :
                    image_urls \in {EbayGetProductImages(availability.st, cl.now,
                                                         ans.ebay[5])}})

\* _process_ebay after get_product_price (lines 151-164).
EbayAfterPrice(r0, item_id, cl, ans, title, description, price_info) ==
    IF price_info.exc # "none"
    THEN Outcome(price_info.exc, r0, WithTokenCache(cl, price_info.st), 3)
    ELSE ValueOf({EbayAfterAvailability(r0, item_id, cl, ans, title, description,
                                        price_info, availability) :
                    availability \in {CheckAvailability(price_info.st, cl.now,
                                                        ans.ebay[4])}})

\* _process_ebay after get_product_description (lines 150-151).
EbayAfterDescription(r0, item_id, cl, ans, title, description) ==
    IF description.exc # "none"
    THEN Outcome(description.exc, r0, WithTokenCache(cl, description.st), 2)
    ELSE ValueOf({EbayAfterPrice(r0, item_id, cl, ans, title, description,
                                 price_info) :
                    price_info \in {EbayGetProductPrice(description.st, cl.now,
                                                        ans.ebay[3])}})

\* _process_ebay after get_product_title (lines 149-150).
EbayAfterTitle(r0, item_id, cl, ans, title) ==
    IF title.exc # "none"
    THEN Outcome(title.exc, r0, WithTokenCache(cl, title.st), 1)
    ELSE ValueOf({EbayAfterDescription(r0, item_id, cl, ans, title, description) :
                    description \in {EbayGetProductDescription(title.st, cl.now,
                                                               ans.ebay[2])}})

\* ProductScraper._process_ebay.  ans.ebay[k] holds the answers of the token
\* and item endpoints to the k-th call of the client; every call works on the
\* token cache the call before it has left.
ProcessEbay(url, result, cl, ans) ==
    LET extracted == extract_ebay_item_id(url)
        item_id == extracted.val
        st0 == [access_token |-> cl.access_token, token_expiry |-> cl.token_expiry]
    IN  IF extracted.exc # "none" THEN Outcome(extracted.exc, result, cl, 0)
        ELSE IF item_id = NoneStr
        THEN Outcome("none",
                     [result EXCEPT !.error = "Could not extract item ID from URL"],
                     cl, 0)
        ELSE ValueOf({EbayAfterTitle([result EXCEPT !.product_id = item_id],
                                     item_id, cl, ans, title) :
                        title \in {EbayGetProductTitle(st0, cl.now, ans.ebay[1])}})

\* ProductScraper.process_single_link.
ProcessSingleLink(url, row_index, folder_name, cl, ans) ==
    LET detected == detect_marketplace(url)
        marketplace == detected.val
        result == [InitialResult(url, row_index, folder_name)
                       EXCEPT !.marketplace = marketplace]
    IN  IF detected.exc # "none"
        THEN Outcome(detected.exc, InitialResult(url, row_index, folder_name), cl, 0)
        ELSE IF marketplace = "unknown"
        THEN Outcome("none",
                     [result EXCEPT !.error = "Invalid URL - not from AliExpress or eBay"],
                     cl, 0)
        ELSE IF marketplace = "aliexpress"
        THEN ProcessAliexpress(url, result, cl, ans)
        ELSE ProcessEbay(url, result, cl, ans)

(***************************************************************************)
(* Orchestrator: the links and the answers of the marketplaces             *)
(***************************************************************************)

\* The URLs handed to the scraper: a product page and a page without an id
\* on each marketplace, a page of another site, and the empty string.
AliUrl == Url("www.aliexpress.com", "item_html", "1005004049949624", "none", "")
AliUrlNoId == Url("www.aliexpress.com", "other", "", "none", "")
EbayUrl == Url("www.ebay.com", "itm", "123456789012", "none", "")
EbayUrlNoId == Url("www.ebay.com", "other", "", "none", "")
UnknownUrl == Url("example.com", "item_html", "42", "none", "")
LinkUrls == {AliUrl, AliUrlNoId, EbayUrl, EbayUrlNoId, UnknownUrl, EmptyUrl}

ImageA == ImageUrl(FALSE, "cdn.example/a.jpg")
ImageB == ImageUrl(FALSE, "cdn.example/b.jpg")

\* An AliExpress item "Test Widget" in stock, with its images.
WidgetItem(stock, main, more) ==
    [kind |-> "obj", totalAvailableStock |-> Number(stock), stock |-> NoNumber,
     itemStatus |-> "active", offline |-> "absent", title |-> "Test Widget",
     description |-> NoText, productDescription |-> NoText,
     detail |-> NoText, descriptionUrl |-> NoText, salePrice |-> NoSalePrice,
     flat |-> NoFlatPrice, mainImageUrl |-> main, imageUrls |-> more]

AliAnswer(item) ==
    [kind |-> "json",
     body |-> [kind |-> "obj", result |-> "obj", status |-> OkStatus, item |-> item]]

\* What the AliExpress endpoint answers to one fetch of a link: a transport
\* error, the body {"result": null}, the item without images, the item with
\* two images.
ScraperAliAnswers ==
    {[kind |-> "transport", body |-> NullBody],
     [kind |-> "json",
      body |-> [kind |-> "obj", result |-> "null", status |-> OkStatus,
                item |-> NullAliItem]],
     AliAnswer(WidgetItem(3, NoImage, <<>>)),
     AliAnswer(WidgetItem(3, ImageA, <<ImageB>>))}

\* An eBay listing "Test Widget" with two units, with its images.
WidgetListing(images) ==
    [NullItem EXCEPT !.url = TRUE, !.title = TRUE, !.images = images,
                     !.avail = [has |-> TRUE,
                                list |-> <<[hasQty |-> TRUE, qty |-> MaxQty]>>]]

EbayAnswer(tok, item) ==
    [tok1 |-> tok, item |-> item, tok2 |-> UnusedToken, group |-> UnusedGroup]

\* What eBay answers to one call of the client: the token endpoint fails or
\* gives a token of 600 seconds (asked only without a valid cached token);
\* the item endpoint fails, or gives the listing without or with an image.
ScraperEbayAnswers ==
    {EbayAnswer([kind |-> "fail", e |-> 0], [kind |-> "transport", rec |-> NullItem]),
     EbayAnswer([kind |-> "ok", e |-> 600], [kind |-> "transport", rec |-> NullItem]),
     EbayAnswer([kind |-> "ok", e |-> 600], [kind |-> "ok", rec |-> WidgetListing(<<>>)]),
     EbayAnswer([kind |-> "ok", e |-> 600],
                [kind |-> "ok", rec |-> WidgetListing(<<ImageA>>)])}

\* The five client calls of one link.
Stages == 1..5

NoAnswers ==
    [ali |-> [k \in Stages |-> NoAliResponse],
     ebay |-> [k \in Stages |-> NoEnv],
     failing |-> NoneFailing]

\* The answers to the five calls: the same answer to each, or one call
\* answered differently from the others.
AnswerSeqs(S) ==
    {[k \in Stages |-> IF k = j THEN b ELSE a] : a \in S, b \in S, j \in Stages}

\* The answers one link can get: only the marketplace that is asked answers.
Answers(url, AS, ES) ==
    IF detect_marketplace(url).val = "aliexpress" /\ extract_product_id(url).val # NoneStr
    THEN {[NoAnswers EXCEPT !.ali = a] : a \in AS}
    ELSE IF detect_marketplace(url).val = "ebay" /\ extract_ebay_item_id(url).val # NoneStr
    THEN {[NoAnswers EXCEPT !.ebay = e] : e \in ES}
    ELSE {NoAnswers}

(***************************************************************************)
(* Table processor (src/table_processor.py)                                *)
(***************************************************************************)

\* A cell of the link column: NaN, a string of white space, or a URL.
NanCell == [k |-> "nan", url |-> EmptyUrl]
BlankCell == [k |-> "blank", url |-> EmptyUrl]
UrlCell(url) == [k |-> "url", url |-> url]

\* The result columns of a row before add_results_columns has written them.
NoColumns ==
    [written |-> FALSE, row_number |-> NoNumber, product_id |-> NoneStr,
     title |-> NoneStr, description |-> NoneStr, price |-> NonePrice,
     availability |-> FALSE, stock_quantity |-> NoNumber,
     images_downloaded |-> 0, download_folder |-> NoFolder]

\* A row: its link cell, its cell of the column 'num' (NoneStr: NaN, or the
\* column is absent) and its result columns.
Row(link, num) == [link |-> link, num |-> num, out |-> NoColumns]

\* The cell of 'num' in the r-th row of the tables of the model.
NumOf(r) == IF r = 1 THEN "10" ELSE IF r = 2 THEN "20" ELSE "30"

\* A column of the table: its name and its cells from the top.
Column(name, cells) == [name |-> name, cells |-> cells]

\* df is None: no table loaded.
NoDf == <<Column(NoneStr, <<>>)>>

\* str(col).lower() of the column names of the model.
LowerName(name) ==
    CASE name = "Link" -> "link"
      [] name = "Product URL" -> "product url"
      [] name = "AliExpress" -> "aliexpress"
      [] OTHER -> name

\* keyword in col_lower, for the lower-cased names and keywords of the model.
NameContains(col_lower, keyword) ==
    <<col_lower, keyword>> \in
        {<<"link", "link">>, <<"product url", "url">>, <<"aliexpress", "aliexpress">>,
         <<"items", "item">>}

\* The keywords find_link_column uses when none are passed (line 59).
DefaultKeywords == {"link", "url", "aliexpress"}

\* Series.dropna().head(5): the first cells that are not NaN.
SampleSize == 5
RECURSIVE Sample(_, _)
Sample(cells, n) ==
    IF cells = <<>> \/ n = 0 THEN <<>>
    ELSE IF Head(cells).k = "nan" THEN Sample(Tail(cells), n)
    ELSE <<Head(cells)>> \o Sample(Tail(cells), n - 1)

\* domain in str(val).lower(): the URLs of the model hold a domain in their
\* host only.
CellContains(cell, domain) ==
    cell.k = "url" /\ domain \in DomainsIn(Lower(cell.url.host))

\* The first column that passes a test, 0 for none.
FirstOf(hits) == IF hits = {} THEN 0 ELSE CHOOSE i \in hits : \A j \in hits : i <= j

\* TableProcessor.find_link_column(keywords): the position of the column it
\* returns and stores in self.link_column, 0 for None.
find_link_column(columns, keywords) ==
    LET cols == 1..Len(columns)
        by_hint == {i \in cols : \/ NameContains(LowerName(columns[i].name), "link")
                                 \/ NameContains(LowerName(columns[i].name), "url")}
        by_keyword == {i \in cols : \E keyword \in keywords :
                                        NameContains(LowerName(columns[i].name), keyword)}
        by_content == {i \in cols :
                          LET sample == Sample(columns[i].cells, SampleSize)
                          IN  \E k \in 1..Len(sample) :
                                  CellContains(sample[k], "aliexpress.com")}
    IN  IF columns = NoDf THEN 0
        ELSE IF by_hint # {} THEN FirstOf(by_hint)
        ELSE IF by_keyword # {} THEN FirstOf(by_keyword)
        ELSE FirstOf(by_content)

\* No call made yet of find_link_column; link_column is self.link_column.
ColIdle ==
    [op |-> "init", columns |-> NoDf, keywords |-> {}, ret |-> 0, link_column |-> 0]

\* Lines 115-118: dropna, then the cells that are not empty after strip.
IsLink(row) == row.link.k = "url"

get_product_links(table) ==
    LET kept == SelectSeq(table.rows, IsLink)
    IN  [i \in 1..Len(kept) |-> kept[i].link.url]

\* TableProcessor.get_folder_names('num'): one entry per row of the table.
get_folder_names(table) ==
    [r \in 1..Len(table.rows) |->
        IF table.hasNum THEN table.rows[r].num ELSE NoneStr]

\* Lines 179-187: the columns written from one result.
ColumnsOf(result) ==
    [written |-> TRUE, row_number |-> result.row_number,
     product_id |-> result.product_id, title |-> result.title,
     description |-> result.description, price |-> result.price,
     availability |-> result.available,
     stock_quantity |-> result.stock_quantity,
     images_downloaded |-> result.images_downloaded,
     download_folder |-> result.folder]

\* Lines 176-187: the rows after the first k results have been written,
\* each at the label result['row_index'] (rows are labelled from 0).
RECURSIVE WriteResults(_, _, _)
WriteResults(rows, rs, k) ==
    IF k = 0
    THEN rows
    ELSE LET before == WriteResults(rows, rs, k - 1)
             idx == rs[k].row_index
         IN  IF idx.has /\ idx.v < Len(rows)
             THEN [before EXCEPT ![idx.v + 1].out = ColumnsOf(rs[k])]
             ELSE before

add_results_columns(table, rs) ==
    [table EXCEPT !.rows = WriteResults(table.rows, rs, Len(rs))]

(***************************************************************************)
(* Orchestrator: process_table and process_links_list (src/main.py)        *)
(***************************************************************************)

\* Lines 286-294 of _print_summary.
RECURSIVE TotalImages(_, _)
TotalImages(rs, k) ==
    IF k = 0 THEN 0 ELSE TotalImages(rs, k - 1) + rs[k].images_downloaded

IsAvailable(r) == r.available
IsUnavailable(r) == ~r.available
HasError(r) == r.error # NoneStr /\ r.error # ""
IsAliexpress(r) == r.marketplace = "aliexpress"
IsEbay(r) == r.marketplace = "ebay"

PrintSummary(rs) ==
    [printed |-> TRUE,
     total |-> Len(rs),
     available |-> Cardinality({k \in 1..Len(rs) : IsAvailable(rs[k])}),
     unavailable |-> Cardinality({k \in 1..Len(rs) : IsUnavailable(rs[k])}),
     errors |-> Cardinality({k \in 1..Len(rs) : HasError(rs[k])}),
     total_images |-> TotalImages(rs, Len(rs)),
     aliexpress |-> Cardinality({k \in 1..Len(rs) : IsAliexpress(rs[k])}),
     ebay |-> Cardinality({k \in 1..Len(rs) : IsEbay(rs[k])})]

(***************************************************************************)
(* SpecLink: calls of process_single_link, each fetch with its own answer. *)
(***************************************************************************)

LinkIdle ==
    [op |-> "init", url |-> EmptyUrl, row_index |-> NoNumber,
     folder_name |-> NoneStr, ans |-> NoAnswers, exc |-> "none",
     result |-> InitialResult(EmptyUrl, NoNumber, NoneStr), fetches |-> 0,
     issued |-> 0]

NoTable == [hasNum |-> FALSE, rows |-> <<>>]
NoSummary ==
    [printed |-> FALSE, total |-> 0, available |-> 0, unavailable |-> 0,
     errors |-> 0, total_images |-> 0, aliexpress |-> 0, ebay |-> 0]
RunIdle ==
    [mode |-> "idle", pc |-> "idle", links |-> <<>>, folder_names |-> <<>>,
     exc |-> "none", saved |-> FALSE, summary |-> NoSummary]

\* ProductScraper.__init__ (lines 21-25) on an empty download folder, with
\* no table loaded.
InitScraper ==
    /\ files = {}
    /\ link_log = LinkIdle
    /\ df = NoTable
    /\ results = <<>>
    /\ run = RunIdle
    /\ dl_log = DlIdle
    /\ url_log = UrlIdle
    /\ col_log = ColIdle

\* A call process_single_link(url, row_index, folder_name).
ProcessSingleLinkCall ==
    /\ link_log = LinkIdle
    /\ now <= StartTime + MaxAliTicks
    /\ \E url \in LinkUrls, row_index \in {NoNumber, Number(0)},
          folder_name \in {NoneStr, "7"} :
          \E ans \in Answers(url, AnswerSeqs(ScraperAliAnswers),
                             AnswerSeqs(ScraperEbayAnswers)) :
              \E o \in {ProcessSingleLink(url, row_index, folder_name, Clients, ans)} :
                  /\ now' = o.cl.now
                  /\ last_request_time' = o.cl.last_request_time
                  /\ access_token' = o.cl.access_token
                  /\ token_expiry' = o.cl.token_expiry
                  /\ files' = o.cl.files
                  /\ link_log' = [LinkIdle EXCEPT
                                    !.op = "process_single_link",
                                    !.url = url, !.row_index = row_index,
                                    !.folder_name = folder_name, !.ans = ans,
                                    !.exc = o.exc, !.result = o.result,
                                    !.fetches = o.fetches,
                                    !.issued = now' - now]
    /\ UNCHANGED <<ebay_log, ali_log, df, results, run, toolVars>>

\* The caller has taken the outcome of the call.
LinkReturn ==
    /\ link_log # LinkIdle
    /\ link_log' = LinkIdle
    /\ UNCHANGED <<now, access_token, token_expiry, ebay_log, last_request_time,
                   ali_log, files, df, results, run, toolVars>>

InitLink ==
    /\ now = StartTime
    /\ InitEbay
    /\ InitAli
    /\ InitScraper

NextLink ==
    \/ ProcessSingleLinkCall
    \/ LinkReturn

SpecLink == InitLink /\ [][NextLink]_vars

(***************************************************************************)
(* Spec: batches (process_table and process_links_list), one loop          *)
(* iteration per step; a product answers each of its fetches alike.        *)
(***************************************************************************)

\* The tables: up to MaxRows rows whose link cell is NaN, blank or a URL;
\* the column 'num' is absent, filled, or filled except for its first row.
TableLinkCells ==
    {NanCell, BlankCell, UrlCell(AliUrl), UrlCell(EbayUrl), UrlCell(UnknownUrl)}

NumCell(mode, r) ==
    IF mode = "absent" \/ (mode = "first_nan" /\ r = 1) THEN NoneStr ELSE NumOf(r)

Tables ==
    {[hasNum |-> mode # "absent",
      rows |-> [r \in 1..Len(cells) |-> Row(cells[r], NumCell(mode, r))]] :
        cells \in SeqsUpTo(TableLinkCells, MaxRows),
        mode \in {"absent", "filled", "first_nan"}}

\* The lists handed to process_links_list.
LinkLists == SeqsUpTo({AliUrl, AliUrlNoId, EbayUrl, UnknownUrl}, MaxRows)

Uniform(S) == {[k \in Stages |-> a] : a \in S}

\* process_table up to the loop (lines 208-243): the table loads or not; the
\* link column is found; without links the call returns [].
ProcessTableStart ==
    /\ run.pc = "idle"
    /\ \E table \in Tables, loaded \in BOOLEAN :
          IF ~loaded
          THEN /\ run' = [RunIdle EXCEPT !.mode = "table", !.pc = "returned"]
               /\ UNCHANGED <<df, results>>
          ELSE /\ df' = table
               /\ IF get_product_links(table) = <<>>
                  THEN /\ run' = [RunIdle EXCEPT !.mode = "table", !.pc = "returned"]
                       /\ UNCHANGED results
                  ELSE /\ run' = [RunIdle EXCEPT
                                    !.mode = "table", !.pc = "loop",
                                    !.links = get_product_links(table),
                                    !.folder_names = get_folder_names(table)]
                       /\ results' = <<>>
    /\ UNCHANGED <<now, access_token, token_expiry, ebay_log, last_request_time,
                   ali_log, files, link_log, toolVars>>

\* process_links_list up to the loop (lines 269-271).
ProcessLinksListStart ==
    /\ run.pc = "idle"
    /\ \E links \in LinkLists :
          run' = [RunIdle EXCEPT !.mode = "list", !.pc = "loop", !.links = links]
    /\ results' = <<>>
    /\ UNCHANGED <<now, access_token, token_expiry, ebay_log, last_request_time,
                   ali_log, files, link_log, df, toolVars>>

\* Lines 246 and 273: the folder name handed to process_single_link.
FolderNameAt(idx) ==
    IF run.mode = "table" /\ idx < Len(run.folder_names)
    THEN run.folder_names[idx + 1]
    ELSE NoneStr

\* One iteration of the loop (lines 244-248 and 272-274): an exception of
\* process_single_link leaves the loop and the batch.
ProcessLink ==
    /\ run.pc = "loop"
    /\ Len(results) < Len(run.links)
    /\ \E link \in {run.links[Len(results) + 1]} :
        \E ans \in Answers(link, Uniform(ScraperAliAnswers),
                           Uniform(ScraperEbayAnswers)) :
          \E o \in {ProcessSingleLink(link, Number(Len(results)),
                                      FolderNameAt(Len(results)), Clients, ans)} :
              /\ now' = o.cl.now
              /\ last_request_time' = o.cl.last_request_time
              /\ access_token' = o.cl.access_token
              /\ token_expiry' = o.cl.token_expiry
              /\ files' = o.cl.files
              /\ IF o.exc = "none"
                 THEN /\ results' = Append(results, o.result)
                      /\ run' = run
                 ELSE /\ results' = results
                      /\ run' = [run EXCEPT !.pc = "raised", !.exc = o.exc]
    /\ UNCHANGED <<ebay_log, ali_log, link_log, df, toolVars>>

\* process_table after the loop (lines 251-257): the results are written
\* into the table, the table is saved (or saving fails), the summary is
\* printed.
ProcessTableFinish ==
    /\ run.pc = "loop"
    /\ run.mode = "table"
    /\ Len(results) = Len(run.links)
    /\ df' = add_results_columns(df, results)
    /\ \E saved \in BOOLEAN :
          run' = [run EXCEPT !.pc = "returned", !.saved = saved,
                             !.summary = PrintSummary(results)]
    /\ UNCHANGED <<now, access_token, token_expiry, ebay_log, last_request_time,
                   ali_log, files, link_log, results, toolVars>>

\* process_links_list after the loop (lines 276-278).
ProcessLinksListFinish ==
    /\ run.pc = "loop"
    /\ run.mode = "list"
    /\ Len(results) = Len(run.links)
    /\ run' = [run EXCEPT !.pc = "returned", !.summary = PrintSummary(results)]
    /\ UNCHANGED <<now, access_token, token_expiry, ebay_log, last_request_time,
                   ali_log, files, link_log, df, results, toolVars>>

Init ==
    /\ now = StartTime
    /\ InitEbay
    /\ InitAli
    /\ InitScraper

Next ==
    \/ ProcessTableStart
    \/ ProcessLinksListStart
    \/ ProcessLink
    \/ ProcessTableFinish
    \/ ProcessLinksListFinish

Spec == Init /\ [][Next]_vars

(***************************************************************************)
(* SpecTok: the token cache under a running clock.                         *)
(***************************************************************************)

\* The item answers of SpecTok: every kind of answer, one record of each.
TokItems ==
    {[kind |-> k, rec |-> NullItem] :
        k \in {"transport", "http_other", "http400_11006", "http400_other",
               "http400_nojson", "http400_noerrors"}}
    \cup {[kind |-> "ok", rec |-> [NullItem EXCEPT !.url = TRUE, !.title = TRUE]]}

TokGroups ==
    {[kind |-> "transport", items |-> <<>>],
     [kind |-> "ok", items |-> <<>>],
     [kind |-> "ok",
      items |-> <<[NullItem EXCEPT !.url = TRUE, !.title = TRUE]>>]}

EbayGetProductDetailsTok ==
    EbayGetProductDetailsOver(TokenResponses, TokItems, TokGroups)

InitTok ==
    /\ now = 0
    /\ InitEbay
    /\ InitAli
    /\ InitScraper

NextTok ==
    \/ Tick
    \/ EbayGetAccessToken
    \/ EbayGetProductDetailsTok
    \/ EbayReturn

SpecTok == InitTok /\ [][NextTok]_vars

(***************************************************************************)
(* SpecEbay: get_product_details and check_availability over every record  *)
(* shape, at a fixed time.                                                  *)
(***************************************************************************)

\* The times at which the client is used: with EndTimes, itemEndDate is in
\* the past, now, and in the future.
EbayClocks == {150, 300}

\* The token endpoint answers with a token of 600 seconds or fails.
EbayTokens == {[kind |-> "fail", e |-> 0], [kind |-> "ok", e |-> 600]}

EbayGetProductDetails ==
    EbayGetProductDetailsOver(EbayTokens, ItemResponses, GroupResponses)

EbayCheckAvailability ==
    EbayCheckAvailabilityOver(EbayTokens, ItemResponses, GroupResponses)

InitEbayAt ==
    /\ now \in EbayClocks
    /\ InitEbay
    /\ InitAli
    /\ InitScraper

NextEbay ==
    \/ EbayGetProductDetails
    \/ EbayCheckAvailability
    \/ EbayReturn

SpecEbay == InitEbayAt /\ [][NextEbay]_vars


(***************************************************************************)
(* Claims about the eBay client                                            *)
(***************************************************************************)

\* The answers of get_item_by_legacy_id that are errors other than the
\* item-group error.
OtherItemErrors ==
    {"transport", "http_other", "http400_other", "http400_nojson",
     "http400_noerrors"}

\* C6: get_product_details returns None, without raising, for every error
\* other than the item-group error: any other HTTP error, any transport
\* failure of the item request, and a failure of the token request made at
\* the start of the call.
C6_NoneOnEveryOtherError ==
    (/\ ebay_log.op = "get_product_details"
     /\ \/ ebay_log.in.tok1.kind = "fail"
        \/ ebay_log.in.item.kind \in OtherItemErrors)
    => (ebay_log.exc = "none" /\ ebay_log.none)

\* The quantity a record declares: estimatedAvailableQuantity of its first
\* estimatedAvailabilities entry, 0 when there is none.
DeclaredQuantity(rec) ==
    IF rec.avail.has /\ rec.avail.list # <<>> /\ rec.avail.list[1].hasQty
    THEN rec.avail.list[1].qty
    ELSE 0

\* The outcome the decision table of check_availability gives for a record.
VerdictOfTable(none, rec, clock) ==
    IF none
    THEN Verdict(FALSE, 0, "Failed to fetch product data")
    ELSE IF rec.end.k = "time" /\ rec.end.t < clock
    THEN Verdict(FALSE, 0, "Listing has ended")
    ELSE IF ~rec.url
    THEN Verdict(FALSE, 0, "Item is not active")
    ELSE IF DeclaredQuantity(rec) > 0
    THEN Verdict(TRUE, DeclaredQuantity(rec), "Available")
    ELSE Verdict(FALSE, 0, "Out of stock")

\* C8: for every fetched record shape check_availability never raises and
\* returns the outcome of the decision table: null record, then ended, then
\* not active, then available, else out of stock.  (A fetched record with no
\* key at all is read as a null record.)
C8_DecisionTable ==
    (/\ ebay_log.op = "check_availability"
     /\ ebay_log.in.item.kind = "ok")
    => /\ ebay_log.exc = "none"
       /\ ebay_log.v = VerdictOfTable(IsEmptyDict(ebay_log.in.item.rec),
                                      ebay_log.in.item.rec, now)

RECURSIVE SumDeclared(_, _)
SumDeclared(items, n) ==
    IF n = 0 THEN 0 ELSE SumDeclared(items, n - 1) + DeclaredQuantity(items[n])

\* C9: when the legacy-id request answers 400 with errorId 11006 and the
\* group request returns N >= 1 items, get_product_details returns the first
\* member marked _is_item_group with _item_group_size = N, and the quantity
\* check_availability reads from it is the sum over all N members (stated for
\* the groups none of whose members has an empty estimatedAvailabilities
\* list).
C9_GroupQuantityIsSum ==
    (/\ ebay_log.op \in {"get_product_details", "check_availability"}
     /\ ebay_log.in.item.kind = "http400_11006"
     /\ ebay_log.in.group.kind = "ok"
     /\ ebay_log.in.group.items # <<>>
     /\ \A i \in 1..Len(ebay_log.in.group.items) :
           ebay_log.in.group.items[i].avail # [has |-> TRUE, list |-> <<>>])
    => /\ ~ebay_log.none
       /\ ebay_log.rec.group
       /\ ebay_log.rec.size = Len(ebay_log.in.group.items)
       /\ ebay_log.rec.title = ebay_log.in.group.items[1].title
       /\ AvailableQuantity(ebay_log.rec).exc = "none"
       /\ AvailableQuantity(ebay_log.rec).qty
            = SumDeclared(ebay_log.in.group.items, Len(ebay_log.in.group.items))

\* The time from which a token obtained at tk.t with lifetime tk.e is no
\* longer reused.
Deadline(tk) == tk.t + tk.e - 300

\* A token obtained with a reported lifetime is cached.
HasReportedToken(st) == st.access_token # NoToken /\ st.access_token.e # -1

\* C10 as stated: strictly before t + E - 300 the cached token is returned
\* without a token request; at or after it the call issues exactly one token
\* request and replaces the cached token and expiry; and no bearer token is
\* sent at or past its acquisition time + E - 300.
C10_AsStated ==
    /\ (/\ ebay_log.op = "_get_access_token"
        /\ HasReportedToken(ebay_log.pre)
        /\ now < Deadline(ebay_log.pre.access_token))
       => /\ ebay_log.reqs = 0
          /\ ebay_log.tok = ebay_log.pre.access_token
    /\ (/\ ebay_log.op = "_get_access_token"
        /\ HasReportedToken(ebay_log.pre)
        /\ now >= Deadline(ebay_log.pre.access_token))
       => /\ ebay_log.reqs = 1
          /\ ebay_log.in.tok1.kind = "ok"
          /\ access_token = Token(now, ebay_log.in.tok1.e)
          /\ token_expiry = now + ebay_log.in.tok1.e - 300
    /\ ebay_log.op = "get_product_details"
       => \A i \in 1..Len(ebay_log.sent) :
             /\ ebay_log.sent[i].e # -1
             /\ now < Deadline(ebay_log.sent[i])

\* C10, amended: strictly before t + E - 300 the cached token is returned
\* without a token request and the cache is unchanged; at or after it the
\* call issues exactly one token request, which replaces the cached token and
\* expiry when it is answered with a token and a lifetime and leaves both
\* unchanged when it fails; and every bearer token sent is either the one
\* obtained in the same call or a cached one that is strictly before its
\* acquisition time + E - 300.
C10_TokenCache ==
    /\ HasReportedToken(EbayState) => token_expiry = Deadline(access_token)
    /\ (/\ ebay_log.op = "_get_access_token"
        /\ HasReportedToken(ebay_log.pre)
        /\ now < Deadline(ebay_log.pre.access_token))
       => /\ ebay_log.reqs = 0
          /\ ebay_log.exc = "none"
          /\ ebay_log.tok = ebay_log.pre.access_token
          /\ EbayState = ebay_log.pre
    /\ (/\ ebay_log.op = "_get_access_token"
        /\ HasReportedToken(ebay_log.pre)
        /\ now >= Deadline(ebay_log.pre.access_token))
       => /\ ebay_log.reqs = 1
          /\ ebay_log.in.tok1.kind = "ok"
             => /\ ebay_log.exc = "none"
                /\ ebay_log.tok = Token(now, ebay_log.in.tok1.e)
                /\ access_token = Token(now, ebay_log.in.tok1.e)
                /\ token_expiry = now + ebay_log.in.tok1.e - 300
          /\ ebay_log.in.tok1.kind = "fail"
             => /\ ebay_log.exc = "RequestException"
                /\ EbayState = ebay_log.pre
    /\ ebay_log.op = "get_product_details"
       => \A i \in 1..Len(ebay_log.sent) :
             /\ ebay_log.sent[i].e # -1
             /\ \/ ebay_log.sent[i].t = now
                \/ now < Deadline(ebay_log.sent[i])

\* A call exactly at the expiry of a cached token asks for a new token and
\* gets it; and another call reused a cached token sent to the item endpoint.
C10_Witness ==
    /\ ebay_log.op = "_get_access_token"
    /\ HasReportedToken(ebay_log.pre)
    /\ now = Deadline(ebay_log.pre.access_token)
    /\ ebay_log.pre.access_token.t < now
    /\ ebay_log.reqs = 1
    /\ ebay_log.in.tok1.kind = "ok"
    /\ access_token = Token(now, ebay_log.in.tok1.e)

\* A call of _get_access_token whose token request failed (transport error
\* or non-2xx answer).
IsFailedRefresh ==
    /\ ebay_log.op = "_get_access_token"
    /\ ebay_log.reqs = 1
    /\ ebay_log.in.tok1.kind = "fail"

\* A failed token request leaves the cache as it was, and the token of the
\* cache is still not valid, so that the next call asks again.
FailedRefreshKeepsCache ==
    IsFailedRefresh
        => /\ ebay_log.exc = "RequestException"
           /\ EbayState = ebay_log.pre
           /\ ~TokenIsValid(EbayState, now)

\* C30: a failed token request leaves access_token and token_expiry as they
\* were before the call, so that the next call asks for a token again; and
\* access_token and token_expiry are only ever changed together, by a
\* successful token response: whenever a call has changed the cache, the
\* cache holds a token with its reported lifetime and the expiry computed
\* from it.
C30_TokenFrame ==
    /\ IsFailedRefresh
          => /\ EbayState = ebay_log.pre
             /\ ~TokenIsValid(EbayState, now)
    /\ (ebay_log.op # "init" /\ EbayState # ebay_log.pre)
          => /\ access_token # ebay_log.pre.access_token
             /\ HasReportedToken(EbayState)
             /\ token_expiry = Deadline(access_token)


(***************************************************************************)
(* SpecAli: the AliExpress client over every answer of the endpoint.       *)
(***************************************************************************)

InitAliAt ==
    /\ now = StartTime
    /\ InitEbay
    /\ InitAli
    /\ InitScraper

NextAli ==
    \/ AliTick
    \/ AliGetProductDetailsCall
    \/ AliCheckAvailabilityCall
    \/ AliReturn

SpecAli == InitAliAt /\ [][NextAli]_vars


(***************************************************************************)
(* SpecAliData: get_product_images, get_product_price and                  *)
(* get_product_description over the image, price and description fields    *)
(* of the item.                                                            *)
(***************************************************************************)

\* Image URLs: two images, each written 'https://<name>' or '//<name>'.
ImageValues == {ImageUrl(rel, name) : rel \in BOOLEAN, name \in {"x/a.jpg", "x/b.jpg"}}

\* Prices: 0 is the falsy number.
PriceValues == {0, 10, 20}
PriceFields == {NoNumber} \cup {Number(n) : n \in PriceValues}
AliasFields == {NoNumber, Number(30)}
SalePrices ==
    {NoSalePrice, NonObjectSalePrice}
    \cup {SalePrice(min, max, minPrice, maxPrice) :
             min \in PriceFields, max \in PriceFields,
             minPrice \in AliasFields, maxPrice \in AliasFields}

\* Flat fields: none, one or two of the seven price fields, and the currency
\* fields.
FlatPriceNames ==
    {"minPrice", "price", "targetMinPrice", "sku_min_price",
     "maxPrice", "targetMaxPrice", "sku_max_price"}
FlatPrices ==
    {NoFlatPrice}
    \cup {[NoFlatPrice EXCEPT ![f] = Number(n)] :
             f \in FlatPriceNames, n \in {0, 40}}
    \cup {[NoFlatPrice EXCEPT ![f] = Number(40), ![g] = Number(50)] :
             f \in FlatPriceNames, g \in FlatPriceNames}
Currencies ==
    {[currency |-> c, targetCurrency |-> t] : c \in {"", "EUR"}, t \in {"", "GBP"}}

\* Items that differ in their images or in their price.
DataItem == WidgetItem(1, NoImage, <<>>)
DataItems ==
    {[DataItem EXCEPT !.mainImageUrl = m, !.imageUrls = l] :
        m \in {NoImage} \cup ImageValues, l \in SeqsUpTo(ImageValues, MaxImages)}
    \cup {[DataItem EXCEPT !.salePrice = sp,
                           !.flat = [fp EXCEPT !.currency = cur.currency,
                                               !.targetCurrency = cur.targetCurrency]] :
             sp \in {NoSalePrice, NonObjectSalePrice, SalePrice(NoNumber, NoNumber, NoNumber, NoNumber),
                     SalePrice(Number(10), NoNumber, NoNumber, Number(30))},
             fp \in FlatPrices, cur \in Currencies}
    \cup {[DataItem EXCEPT !.salePrice = sp] : sp \in SalePrices}
    \cup {[NullAliItem EXCEPT !.kind = "null"]}

\* Description texts: markup, whitespace and a letter.
TextChars == {"<", ">", " ", "\n", "a"}
Texts == SeqsUpTo(TextChars, MaxText)
AliasTexts == {NoText, StrText(<<>>), StrText(<<"b">>), EmptyObject, HtmlObject(<<"c">>)}

\* Items that differ in their description fields: one description of any
\* text, or descriptions and aliases of a few values.
TextItems ==
    {[DataItem EXCEPT !.description = StrText(t)] : t \in Texts}
    \cup {[DataItem EXCEPT !.description = d, !.productDescription = p,
                           !.detail = e, !.descriptionUrl = u] :
             d \in AliasTexts, p \in AliasTexts, e \in AliasTexts, u \in AliasTexts}
    \cup {[NullAliItem EXCEPT !.kind = "null"]}

\* A call of get_product_images: the throttle, then the request.
AliGetProductImagesCall ==
    /\ ali_log = AliIdle
    /\ RateLimit(last_request_time, now) <= StartTime + MaxAliTicks
    /\ \E resp \in AliResponses(DataItems) :
          \E r \in {AliGetProductImages(resp)} :
              /\ now' = RateLimit(last_request_time, now)
              /\ last_request_time' = now'
              /\ ali_log' = [AliIdle EXCEPT
                               !.op = "get_product_images", !.in = resp,
                               !.exc = r.exc, !.images = r.val,
                               !.issued = now', !.prev = last_request_time]
    /\ UNCHANGED <<access_token, token_expiry, ebay_log, scraperVars, toolVars>>

\* A call of get_product_description.
AliGetProductDescriptionCall ==
    /\ ali_log = AliIdle
    /\ RateLimit(last_request_time, now) <= StartTime + MaxAliTicks
    /\ \E resp \in AliResponses(TextItems) :
          \E r \in {AliGetProductDescription(resp)} :
              /\ now' = RateLimit(last_request_time, now)
              /\ last_request_time' = now'
              /\ ali_log' = [AliIdle EXCEPT
                               !.op = "get_product_description", !.in = resp,
                               !.exc = r.exc, !.description = r.val,
                               !.issued = now', !.prev = last_request_time]
    /\ UNCHANGED <<access_token, token_expiry, ebay_log, scraperVars, toolVars>>

\* A call of get_product_price.
AliGetProductPriceCall ==
    /\ ali_log = AliIdle
    /\ RateLimit(last_request_time, now) <= StartTime + MaxAliTicks
    /\ \E resp \in AliResponses(DataItems) :
          \E r \in {AliGetProductPrice(resp)} :
              /\ now' = RateLimit(last_request_time, now)
              /\ last_request_time' = now'
              /\ ali_log' = [AliIdle EXCEPT
                               !.op = "get_product_price", !.in = resp,
                               !.exc = r.exc, !.price = r.val,
                               !.issued = now', !.prev = last_request_time]
    /\ UNCHANGED <<access_token, token_expiry, ebay_log, scraperVars, toolVars>>

NextAliData ==
    \/ AliGetProductImagesCall
    \/ AliGetProductPriceCall
    \/ AliGetProductDescriptionCall
    \/ AliReturn

SpecAliData == InitAliAt /\ [][NextAliData]_vars

(***************************************************************************)
(* SpecDl: calls of download_product_images on one ImageDownloader, each   *)
(* with its own product, URL list and download failures.                   *)
(***************************************************************************)

DlProducts == {"1", "2"}
\* The lists of up to MaxImages URLs, with ImageA and ImageB in turn.
DlUrlLists ==
    {[i \in 1..k |-> IF i % 2 = 1 THEN ImageA ELSE ImageB] : k \in 0..MaxImages}
DlFailings ==
    {Failing(lost, partial) : lost \in SUBSET (1..MaxImages),
                              partial \in SUBSET (1..MaxImages)}

\* A call download_product_images(product_id, image_urls): before are the
\* files on disk when it starts, failing the way its calls of download_image
\* end, prev the outcome of the call made before it when that call had the
\* same inputs.
DownloadProductImagesCall ==
    \E product_id \in DlProducts, image_urls \in DlUrlLists, failing \in DlFailings :
        /\ failing.lost \cap failing.partial = {}
        /\ \E d \in {DownloadProductImages(product_id, image_urls, files, failing)} :
              /\ failing.lost \cup failing.partial \subseteq d.requested
              /\ files' = d.fs
              /\ dl_log' = [op |-> "download_product_images",
                            product_id |-> product_id, image_urls |-> image_urls,
                            failing |-> failing, before |-> files,
                            total |-> d.total, downloaded |-> d.downloaded,
                            failed |-> d.failed, folder |-> d.folder,
                            requested |-> d.requested, written |-> d.written,
                            prev |-> IF /\ dl_log.product_id = product_id
                                        /\ dl_log.image_urls = image_urls
                                     THEN [op |-> dl_log.op,
                                           product_id |-> dl_log.product_id,
                                           image_urls |-> dl_log.image_urls,
                                           failed |-> dl_log.failed,
                                           written |-> dl_log.written]
                                     ELSE NoPrevDownload]
        /\ UNCHANGED <<now, access_token, token_expiry, ebay_log, last_request_time,
                       ali_log, link_log, df, results, run, url_log, col_log>>

InitDl ==
    /\ now = StartTime
    /\ InitEbay
    /\ InitAli
    /\ InitScraper

NextDl == DownloadProductImagesCall

SpecDl == InitDl /\ [][NextDl]_vars

(***************************************************************************)
(* SpecUrl: calls of the functions of url_parser on URLs of every shape.   *)
(***************************************************************************)

UrlHosts ==
    {"www.aliexpress.com", "aliexpress.us", "m.aliexpress.ru", "WWW.ALIEXPRESS.COM",
     "www.ebay.com", "WWW.EBAY.COM", "aliexpress.com.ebay.com", "example.com", "",
     "[www.aliexpress.com", "www.ebay.com]"}
UrlPaths == {"item_html", "item", "itm", "other"}
UrlTexts == {"12", "12abc", "abc", ""}
UrlParams ==
    {Param(key, val) : key \in {"productId", "product_id", "item", "itemId"},
                       val \in {"99", "12abc", ""}}
UrlQueries == {<<>>} \cup {<<p>> : p \in UrlParams} \cup {<<p, q>> : p, q \in UrlParams}
UrlInputs ==
    {UrlWith(host, path, text, query) :
        host \in UrlHosts, path \in UrlPaths, text \in UrlTexts, query \in UrlQueries}
    \cup {NoneUrl}

UrlUnchanged ==
    UNCHANGED <<now, access_token, token_expiry, ebay_log, last_request_time,
                ali_log, scraperVars, dl_log, col_log>>

DetectMarketplaceCall ==
    /\ url_log = UrlIdle
    /\ \E url \in UrlInputs :
          \E r \in {detect_marketplace(url)} :
              url_log' = [UrlIdle EXCEPT !.op = "detect_marketplace", !.url = url,
                                         !.exc = r.exc, !.val = r.val]
    /\ UrlUnchanged

ExtractProductIdCall ==
    /\ url_log = UrlIdle
    /\ \E url \in UrlInputs :
          \E r \in {extract_product_id(url)} :
              url_log' = [UrlIdle EXCEPT !.op = "extract_product_id", !.url = url,
                                         !.exc = r.exc, !.val = r.val]
    /\ UrlUnchanged

ExtractEbayItemIdCall ==
    /\ url_log = UrlIdle
    /\ \E url \in UrlInputs :
          \E r \in {extract_ebay_item_id(url)} :
              url_log' = [UrlIdle EXCEPT !.op = "extract_ebay_item_id", !.url = url,
                                         !.exc = r.exc, !.val = r.val]
    /\ UrlUnchanged

NormalizeUrlCall ==
    /\ url_log = UrlIdle
    /\ \E url \in UrlInputs :
          \E r \in {normalize_url(url)} :
              url_log' = [UrlIdle EXCEPT !.op = "normalize_url", !.url = url,
                                         !.exc = r.exc, !.out = r.val]
    /\ UrlUnchanged

\* normalize_url called on the URL the call before has returned.
NormalizeUrlAgain ==
    /\ url_log.op = "normalize_url"
    /\ url_log.exc = "none"
    /\ ~url_log.fed_back
    /\ \E r \in {normalize_url(url_log.out)} :
          url_log' = [UrlIdle EXCEPT !.op = "normalize_url", !.url = url_log.out,
                                     !.exc = r.exc, !.out = r.val,
                                     !.fed_back = TRUE]
    /\ UrlUnchanged

\* The caller has taken the outcome of the call.
UrlReturn ==
    /\ url_log # UrlIdle
    /\ url_log' = UrlIdle
    /\ UrlUnchanged

InitUrl ==
    /\ now = StartTime
    /\ InitEbay
    /\ InitAli
    /\ InitScraper

NextUrl ==
    \/ DetectMarketplaceCall
    \/ ExtractProductIdCall
    \/ ExtractEbayItemIdCall
    \/ NormalizeUrlCall
    \/ NormalizeUrlAgain
    \/ UrlReturn

SpecUrl == InitUrl /\ [][NextUrl]_vars

(***************************************************************************)
(* SpecCol: calls of find_link_column on tables of one or two columns.     *)
(***************************************************************************)

ColumnNames == {"Link", "Product URL", "AliExpress", "items", "num"}
ColumnCells ==
    {NanCell, UrlCell(AliUrl), UrlCell(Url("aliexpress.us", "item_html", "12", "none", "")),
     UrlCell(EbayUrl), UrlCell(UnknownUrl)}

\* A column of up to MaxFill cells that hold no link, with one more cell
\* under them.
Columns ==
    {Column(name, [k \in 1..n |-> filler] \o <<cell>>) :
        name \in ColumnNames, n \in 0..MaxFill,
        filler \in {NanCell, UrlCell(UnknownUrl)}, cell \in ColumnCells}
LinkTables ==
    {<<c>> : c \in Columns}
    \cup {<<Column("num", <<NanCell>>), c>> : c \in Columns}
    \cup {<<c, Column("Link", <<NanCell>>)>> : c \in Columns}
    \cup {<<Column("items", <<UrlCell(EbayUrl)>>), c>> : c \in Columns}
    \cup {NoDf}

FindLinkColumnCall ==
    /\ col_log = ColIdle
    /\ \E columns \in LinkTables, keywords \in {DefaultKeywords, {"item"}} :
          \E ret \in {find_link_column(columns, keywords)} :
              col_log' = [op |-> "find_link_column", columns |-> columns,
                          keywords |-> keywords, ret |-> ret,
                          link_column |-> IF ret = 0 THEN col_log.link_column ELSE ret]
    /\ UNCHANGED <<now, access_token, token_expiry, ebay_log, last_request_time,
                   ali_log, scraperVars, dl_log, url_log>>

\* The caller has taken the column found; a new TableProcessor is made for
\* the next table.
ColReturn ==
    /\ col_log # ColIdle
    /\ col_log' = ColIdle
    /\ UNCHANGED <<now, access_token, token_expiry, ebay_log, last_request_time,
                   ali_log, scraperVars, dl_log, url_log>>

InitCol ==
    /\ now = StartTime
    /\ InitEbay
    /\ InitAli
    /\ InitScraper

NextCol ==
    \/ FindLinkColumnCall
    \/ ColReturn

SpecCol == InitCol /\ [][NextCol]_vars

(***************************************************************************)
(* Claims about the AliExpress client                                      *)
(***************************************************************************)

\* The answer is a decoded body whose status is code 200 and data 'success'.
IsSuccessAnswer(resp) ==
    /\ resp.kind = "json"
    /\ resp.body.kind = "obj"
    /\ resp.body.result = "obj"
    /\ resp.body.status = [kind |-> "obj", code |-> 200, data |-> "success"]

\* C5: get_product_details returns None and raises nothing for every failed
\* fetch (transport error, non-2xx, body that is not JSON, no 'result' key,
\* 'result' or 'result.status' that is not an object, status that is not
\* code 200 and data 'success'), and returns the decoded body only when the
\* status is code 200 and data 'success'.
C5_NoneOnEveryFailedFetch ==
    ali_log.op = "get_product_details"
    => /\ ali_log.exc = "none"
       /\ ali_log.none <=> ~IsSuccessAnswer(ali_log.in)
       /\ ~ali_log.none => ali_log.body = ali_log.in.body

\* C26: on one AliExpressAPI instance two consecutive requests are issued at
\* least request_delay apart, however long the client was idle before the
\* first of them, and last_request_time never decreases.
C26_Throttle ==
    [][/\ last_request_time' >= last_request_time
       /\ (ali_log = AliIdle /\ ali_log' # AliIdle)
             => /\ ali_log'.issued = last_request_time'
                /\ ali_log'.prev = last_request_time
                /\ last_request_time # 0
                      => ali_log'.issued - last_request_time >= request_delay]_vars

\* After an idle second a request was issued, and the next one exactly
\* request_delay after it.
C26_Witness ==
    /\ ali_log.op = "get_product_details"
    /\ ali_log.prev = StartTime + 1
    /\ ali_log.issued = ali_log.prev + request_delay
    /\ last_request_time = ali_log.issued

\* C7: the decision table of check_availability: no data => not available,
\* 'Failed to fetch product data'; missing or empty item => 'Product not
\* found'; otherwise the quantity is totalAvailableStock when present, else
\* stock when present; offline status or flag => 'Product is offline'
\* whatever the stock; else quantity <= 0 => 'Out of stock'; else available.
C7_DecisionTable ==
    (ali_log.op = "check_availability" /\ ali_log.exc = "none")
    => LET item == ali_log.in.body.item
           v == ali_log.v
           quantity == IF item.totalAvailableStock.has THEN item.totalAvailableStock
                       ELSE item.stock
           offline == item.itemStatus = "offline" \/ item.offline = "true"
       IN  IF ~IsSuccessAnswer(ali_log.in)
           THEN ~v.available /\ v.reason = "Failed to fetch product data"
           ELSE IF item.kind # "obj"
           THEN ~v.available /\ v.reason = "Product not found"
           ELSE /\ v.stock_quantity = quantity
                /\ offline => (~v.available /\ v.reason = "Product is offline")
                /\ (~offline /\ quantity.has /\ quantity.v <= 0)
                      => (~v.available /\ v.reason = "Out of stock")
                /\ v.available <=> (~offline /\ ~(quantity.has /\ quantity.v <= 0))
                /\ v.available => v.reason = "Available"

\* An item with totalAvailableStock = 5 and the offline flag set was checked.
C7_Witness ==
    /\ ali_log.op = "check_availability"
    /\ ali_log.exc = "none"
    /\ IsSuccessAnswer(ali_log.in)
    /\ ali_log.in.body.item.kind = "obj"
    /\ ali_log.in.body.item.totalAvailableStock = [has |-> TRUE, v |-> 5]
    /\ ali_log.in.body.item.offline = "true"
    /\ ali_log.in.body.item.itemStatus = "absent"
    /\ ali_log.v.reason = "Product is offline"
    /\ ali_log.v.stock_quantity = [has |-> TRUE, v |-> 5]


\* The images of the item in the order the client reads them: the main image,
\* then imageUrls.
ImagesOfItem(item) ==
    (IF item.mainImageUrl = NoImage THEN <<>> ELSE <<item.mainImageUrl>>)
        \o item.imageUrls

\* A list of URLs with every '//' form rewritten to 'https://', and the
\* first occurrences of a list in their order.
RECURSIVE FirstSeen(_, _)
FirstSeen(urls, seen) ==
    IF urls = <<>> THEN <<>>
    ELSE IF Head(urls) \in seen
    THEN FirstSeen(Tail(urls), seen)
    ELSE <<Head(urls)>> \o FirstSeen(Tail(urls), seen \cup {Head(urls)})

Rewritten(urls) == [i \in 1..Len(urls) |-> [urls[i] EXCEPT !.rel = FALSE]]

\* C11: get_product_images returns the first occurrences, in their order, of
\* the item's image URLs after the '//' form has been rewritten to
\* 'https://': a list without a duplicate URL.
C11_ImagesDeduplicated ==
    (/\ ali_log.op = "get_product_images"
     /\ ali_log.exc = "none"
     /\ ali_log.in.kind = "json"
     /\ ~AliGetProductDetails(ali_log.in).none)
        => /\ \A i, j \in 1..Len(ali_log.images) :
                 i # j => ali_log.images[i] # ali_log.images[j]
           /\ ali_log.images
                 = FirstSeen(Rewritten(ImagesOfItem(ali_log.in.body.item)), {})

\* C12: in the dict get_product_price returns, formatted is 'N/A' exactly
\* when min_price and max_price are both None; with both present it is
\* '<currency> <min>' when they are equal and '<currency> <min> - <max>' when
\* they differ.
C12_FormattedPrice ==
    (ali_log.op = "get_product_price" /\ ali_log.exc = "none")
        => /\ (ali_log.price.formatted = <<"N/A">>)
                 <=> (~ali_log.price.min_price.has /\ ~ali_log.price.max_price.has)
           /\ (/\ ali_log.price.min_price.has
               /\ ali_log.price.max_price.has
               /\ ali_log.price.min_price = ali_log.price.max_price)
                 => ali_log.price.formatted
                       = <<ali_log.price.currency, ali_log.price.min_price.v>>
           /\ (/\ ali_log.price.min_price.has
               /\ ali_log.price.max_price.has
               /\ ali_log.price.min_price # ali_log.price.max_price)
                 => ali_log.price.formatted
                       = <<ali_log.price.currency, ali_log.price.min_price.v,
                           "-", ali_log.price.max_price.v>>

\* The first truthy value of the flat minimum fields, and of the flat
\* maximum fields, in the order the claim lists them.
FirstFlatMin(flat) ==
    PyOr(flat.minPrice, PyOr(flat.price, PyOr(flat.targetMinPrice, flat.sku_min_price)))
FirstFlatMax(flat) ==
    PyOr(flat.maxPrice, PyOr(flat.targetMaxPrice, flat.sku_max_price))

IsPriceOfItem ==
    /\ ali_log.op = "get_product_price"
    /\ ali_log.exc = "none"
    /\ ~AliGetProductDetails(ali_log.in).none

\* With a salePrice that is present and is not an object, the flat fields
\* give min and max.
NonObjectFallsBack ==
    (IsPriceOfItem /\ ali_log.in.body.item.salePrice.has
                   /\ ~ali_log.in.body.item.salePrice.obj)
        => /\ ali_log.price.min_price = FirstFlatMin(ali_log.in.body.item.flat)
           /\ ali_log.price.max_price = FirstFlatMax(ali_log.in.body.item.flat)

\* C24: get_product_price takes min from salePrice.min, else
\* salePrice.minPrice, and max from salePrice.max, else salePrice.maxPrice,
\* when salePrice is an object; when salePrice is not an object or the item
\* has no salePrice key at all, min is the first of minPrice, price,
\* targetMinPrice, sku_min_price and max the first of maxPrice,
\* targetMaxPrice, sku_max_price; the currency is 'USD' when neither
\* currency nor targetCurrency is present.
C24_PriceFallback ==
    IsPriceOfItem
        => LET item == ali_log.in.body.item
               sp == item.salePrice
           IN  /\ (sp.has /\ sp.obj)
                     => /\ ali_log.price.min_price = PyOr(sp.min, sp.minPrice)
                        /\ ali_log.price.max_price = PyOr(sp.max, sp.maxPrice)
               /\ ~(sp.has /\ sp.obj)
                     => /\ ali_log.price.min_price = FirstFlatMin(item.flat)
                        /\ ali_log.price.max_price = FirstFlatMax(item.flat)
               /\ (item.flat.currency = "" /\ item.flat.targetCurrency = "")
                     => ali_log.price.currency = "USD"

IsDescriptionOfItem ==
    /\ ali_log.op = "get_product_description"
    /\ AliGetProductDetails(ali_log.in).exc = "none"
    /\ ~AliGetProductDetails(ali_log.in).none
    /\ ali_log.in.body.item.kind = "obj"

\* A markup tag: '<', one or more characters other than '>', then '>'.
HasTag(chars) ==
    \E i, j \in 1..Len(chars) :
        /\ j > i + 1
        /\ chars[i] = "<"
        /\ chars[j] = ">"
        /\ \A k \in (i + 1)..(j - 1) : chars[k] # ">"

\* No tag, no whitespace but single spaces, and none of them at either end.
IsClean(chars) ==
    /\ ~HasTag(chars)
    /\ \A i \in 1..Len(chars) : IsSpace(chars[i]) => chars[i] = " "
    /\ \A i \in 1..(Len(chars) - 1) : ~(IsSpace(chars[i]) /\ IsSpace(chars[i + 1]))
    /\ chars # <<>> => (~IsSpace(chars[1]) /\ ~IsSpace(chars[Len(chars)]))

\* The text the claim describes for the chosen field.
CleanedText(t) == Strip(CollapseSpaces(RemoveTags(t.chars)))

\* For a chosen field that is a flat string (or no field at all), the call
\* returns the cleaned text, which is clean, or 'N/A' when nothing is left.
FlatDescriptionCleaned ==
    (IsDescriptionOfItem /\ ChosenDescription(ali_log.in.body.item).kind # "obj")
        => LET chosen == ChosenDescription(ali_log.in.body.item)
           IN  /\ ali_log.exc = "none"
               /\ IsClean(CleanedText(chosen))
               /\ ali_log.description
                     = IF ~TextIsTruthy(chosen) \/ CleanedText(chosen) = <<>>
                       THEN "N/A"
                       ELSE Join(CleanedText(chosen))

\* C25: for a successfully fetched item, get_product_description takes the
\* first present description field, a flat string or a nested {html: ...}
\* object, removes every markup tag, collapses whitespace runs to one space
\* and trims; it returns 'N/A' exactly when no field is present or the text
\* is empty after stripping, and it never raises on either value shape.
C25_DescriptionCleaned ==
    IsDescriptionOfItem
        => LET chosen == ChosenDescription(ali_log.in.body.item)
           IN  /\ ali_log.exc = "none"
               /\ ali_log.description
                     = IF ~TextIsTruthy(chosen) \/ CleanedText(chosen) = <<>>
                       THEN "N/A"
                       ELSE Join(CleanedText(chosen))


(***************************************************************************)
(* Claims about the image downloader                                       *)
(***************************************************************************)

IsDownload == dl_log.op = "download_product_images"

\* The call logged repeats the inputs of the call made before it.
IsRepeatedDownload ==
    /\ IsDownload
    /\ dl_log.prev.op = "download_product_images"
    /\ dl_log.prev.product_id = dl_log.product_id
    /\ dl_log.prev.image_urls = dl_log.image_urls

\* The file of position i of the call logged.
LoggedFile(i) ==
    ImageFile(create_product_folder(dl_log.product_id), dl_log.product_id, i)

\* C13 as stated: a second call of download_product_images with the same
\* inputs downloads no file the first call wrote and reports
\* downloaded == total.
C13_AsStated ==
    IsRepeatedDownload =>
        /\ dl_log.requested \cap dl_log.prev.written = {}
        /\ dl_log.downloaded = dl_log.total

\* C13 amended: a second call of download_product_images with the same inputs
\* downloads no file the first call wrote; it reports downloaded == total
\* when the first call reported failed == 0, and downloaded == total - failed
\* in every case.
C13_Idempotent ==
    IsRepeatedDownload =>
        /\ dl_log.requested \cap dl_log.prev.written = {}
        /\ dl_log.written \cap dl_log.prev.written = {}
        /\ dl_log.downloaded = dl_log.total - dl_log.failed
        /\ dl_log.prev.failed = 0 =>
              /\ dl_log.requested = {}
              /\ dl_log.downloaded = dl_log.total

C13_Witness ==
    /\ IsRepeatedDownload
    /\ dl_log.total >= 2
    /\ dl_log.prev.written # {}
    /\ dl_log.prev.failed = 0
    /\ dl_log.downloaded = dl_log.total

\* C28: every outcome of download_product_images has downloaded + failed ==
\* total == the number of URLs, downloaded being the files that existed
\* before the call plus the files newly downloaded; for an empty list the
\* outcome is total = downloaded = failed = 0 with folder None, and nothing
\* is created on disk, the product folder included.
C28_CountsAddUp ==
    IsDownload =>
        /\ dl_log.total = Len(dl_log.image_urls)
        /\ dl_log.downloaded + dl_log.failed = dl_log.total
        /\ dl_log.downloaded
              = Cardinality({i \in 1..dl_log.total : LoggedFile(i) \in dl_log.before})
                + Cardinality(dl_log.requested
                                \ (dl_log.failing.lost \cup dl_log.failing.partial))
        /\ dl_log.image_urls = <<>>
              => /\ dl_log.total = 0
                 /\ dl_log.downloaded = 0
                 /\ dl_log.failed = 0
                 /\ dl_log.folder = NoFolder
                 /\ files = dl_log.before
        /\ dl_log.image_urls # <<>>
              => /\ dl_log.folder = create_product_folder(dl_log.product_id)
                 /\ FolderEntry(dl_log.folder) \in files

\* A call with no URL for a product that has no folder yet.
C28_Witness ==
    /\ IsDownload
    /\ dl_log.image_urls = <<>>
    /\ dl_log.total = 0
    /\ dl_log.folder = NoFolder
    /\ FolderEntry(create_product_folder(dl_log.product_id)) \notin files
    /\ files # {}

\* A call of two URLs, one file there already and one download failed.
MixedDownload ==
    /\ IsDownload
    /\ dl_log.total = 2
    /\ dl_log.downloaded = 1
    /\ dl_log.failed = 1
    /\ dl_log.requested # {}
    /\ Cardinality({i \in 1..2 : LoggedFile(i) \in dl_log.before}) = 1

\* C14: a file <product_id>_image_<i>.jpg that exists before a call of
\* download_product_images is still there after it, no request is made and
\* no file is written for its position, and it is counted as downloaded; no
\* file on disk before the call is missing after it.
C14_ExistingKept ==
    IsDownload =>
        /\ dl_log.before \subseteq files
        /\ \A i \in 1..Len(dl_log.image_urls) :
              LoggedFile(i) \in dl_log.before =>
                  /\ i \notin dl_log.requested
                  /\ i \notin dl_log.written
                  /\ LoggedFile(i) \in files
        /\ dl_log.downloaded >=
              Cardinality({i \in 1..Len(dl_log.image_urls) : LoggedFile(i) \in dl_log.before})

C14_Witness ==
    /\ IsDownload
    /\ \E i, j \in 1..Len(dl_log.image_urls) :
          /\ LoggedFile(i) \in dl_log.before
          /\ LoggedFile(j) \notin dl_log.before
          /\ j \in dl_log.written
    /\ dl_log.downloaded = 2

\* C15: a transport or decode failure at position i is counted in failed,
\* leaves no file for position i and does not stop the loop: every later
\* position j is attempted (unless its file exists) and, when its download
\* succeeds, its file is <product_id>_image_<j>.jpg.
C15_FailureIsolated ==
    IsDownload =>
        /\ dl_log.failed =
              Cardinality(dl_log.requested \cap
                          (dl_log.failing.lost \cup dl_log.failing.partial))
        /\ \A i \in dl_log.requested \cap dl_log.failing.lost :
              /\ LoggedFile(i) \notin files
              /\ dl_log.failed >= 1
              /\ \A j \in (i + 1)..Len(dl_log.image_urls) :
                    /\ j \in dl_log.requested \/ LoggedFile(j) \in dl_log.before
                    /\ (j \in dl_log.requested /\ j \notin dl_log.failing.lost) =>
                          LoggedFile(j) \in files

C15_Witness ==
    /\ IsDownload
    /\ \E i \in dl_log.requested \cap dl_log.failing.lost :
          \E j \in (i + 1)..Len(dl_log.image_urls) :
              /\ j \in dl_log.written
              /\ j \notin dl_log.failing.partial
              /\ LoggedFile(j) \notin dl_log.before
              /\ LoggedFile(j) \in files
    /\ dl_log.failed = 1
    /\ dl_log.downloaded = 1

(***************************************************************************)
(* Claims about the URL resolver                                           *)
(***************************************************************************)

\* The marketplace of a host: AliExpress when its lower-cased form contains
\* one of the three AliExpress domains, else eBay when it contains ebay.com.
MarketplaceOfHost(host) ==
    IF DomainsIn(Lower(host)) \cap {"aliexpress.com", "aliexpress.us", "aliexpress.ru"} # {}
    THEN "aliexpress"
    ELSE IF "ebay.com" \in DomainsIn(Lower(host)) THEN "ebay"
    ELSE "unknown"

\* C17: detect_marketplace raises nothing and returns 'aliexpress', 'ebay' or
\* 'unknown' for every input, None and the empty string included, as the
\* host alone decides: the path and the query have no part in it.
C17_TotalByHost ==
    url_log.op = "detect_marketplace" =>
        /\ url_log.exc = "none"
        /\ url_log.val \in {"aliexpress", "ebay", "unknown"}
        /\ url_log.val = MarketplaceOfHost(url_log.url.host)

\* The first parameter of the query named key that has a value.
HasParam(url, key) == \E i \in 1..Len(url.query) : url.query[i].key = key /\ url.query[i].val # ""
ValueOfParam(url, key) ==
    url.query[CHOOSE i \in 1..Len(url.query) :
                /\ url.query[i].key = key /\ url.query[i].val # ""
                /\ \A j \in 1..(i - 1) : ~(url.query[j].key = key /\ url.query[j].val # "")].val

\* C18: extract_product_id returns the digit run of /item/<digits>.html,
\* else that of /item/<digits>, else the query parameter productId, else
\* product_id, else None; extract_ebay_item_id the digit run of
\* /itm/<digits>, else the query parameter item, else itemId, else None.
C18_FirstMatchWins ==
    /\ (url_log.op = "extract_product_id" /\ url_log.url # NoneUrl) =>
          LET u == url_log.url
          IN  /\ url_log.exc = "none"
              /\ url_log.val =
                    IF u.path = "item_html" /\ u.digits \in DigitRuns THEN u.digits
                    ELSE IF u.path \in {"item_html", "item"} /\ LeadingDigits(u.digits) # ""
                    THEN LeadingDigits(u.digits)
                    ELSE IF HasParam(u, "productId") THEN ValueOfParam(u, "productId")
                    ELSE IF HasParam(u, "product_id") THEN ValueOfParam(u, "product_id")
                    ELSE NoneStr
    /\ (url_log.op = "extract_ebay_item_id" /\ url_log.url # NoneUrl) =>
          LET u == url_log.url
          IN  /\ url_log.exc = "none"
              /\ url_log.val =
                    IF u.path = "itm" /\ LeadingDigits(u.digits) # ""
                    THEN LeadingDigits(u.digits)
                    ELSE IF HasParam(u, "item") THEN ValueOfParam(u, "item")
                    ELSE IF HasParam(u, "itemId") THEN ValueOfParam(u, "itemId")
                    ELSE NoneStr

\* The order of C18 alone, on the URLs urlparse accepts.
OrderOnParsedUrls == UnbalancedBracket(url_log.url.host) \/ C18_FirstMatchWins

\* C19: normalize_url applied to a URL that normalize_url has returned
\* returns that URL.
C19_NormalizeIdempotent ==
    (url_log.op = "normalize_url" /\ url_log.fed_back) =>
        /\ url_log.exc = "none"
        /\ url_log.out = url_log.url

(***************************************************************************)
(* Claims about the table processor                                        *)
(***************************************************************************)

MarketplaceDomains == {"aliexpress.com", "aliexpress.us", "aliexpress.ru", "ebay.com"}

\* One of the first five cells of the column that are not empty holds a
\* marketplace domain.
HoldsMarketplaceLinks(column) ==
    LET sample == Sample(column.cells, SampleSize)
    IN  \E k \in 1..Len(sample), d \in MarketplaceDomains : CellContains(sample[k], d)

HasHint(column) ==
    \E h \in {"link", "url"} : NameContains(LowerName(column.name), h)

HasKeyword(column, keywords) ==
    \E w \in keywords : NameContains(LowerName(column.name), w)

\* The first column of the table of the call logged that is in hits.
IsFirstOf(i, hits) == i \in hits /\ \A j \in hits : i <= j

\* C20: find_link_column returns the first column whose name holds 'link' or
\* 'url'; else the first whose name holds a keyword; else the first column
\* with a marketplace domain, of either marketplace, in one of its first
\* five non-empty cells; else None.
C20_LinkColumnFound ==
    (col_log.op = "find_link_column" /\ col_log.columns # NoDf) =>
        LET columns == col_log.columns
            cols == 1..Len(columns)
            by_hint == {i \in cols : HasHint(columns[i])}
            by_keyword == {i \in cols : HasKeyword(columns[i], col_log.keywords)}
            by_content == {i \in cols : HoldsMarketplaceLinks(columns[i])}
        IN  IF by_hint # {} THEN IsFirstOf(col_log.ret, by_hint)
            ELSE IF by_keyword # {} THEN IsFirstOf(col_log.ret, by_keyword)
            ELSE IF by_content # {} THEN IsFirstOf(col_log.ret, by_content)
            ELSE col_log.ret = 0

(***************************************************************************)
(* Claims about the orchestrator                                           *)
(***************************************************************************)

\* The image URLs the last client call of a logged process_single_link
\* returned (<<>> when the link did not get as far as that call).
ImagesFound(log) ==
    IF log.fetches < 5 THEN <<>>
    ELSE IF log.result.marketplace = "aliexpress"
    THEN AliGetProductImages(log.ans.ali[5]).val
    ELSE log.ans.ebay[5].item.rec.images

\* C1: process_single_link returns a result and raises no exception, in the
\* case the claim names: the matched client's get_product_images has
\* returned a non-empty list of image URLs, so that the download stage is
\* entered.
C1_NoExceptionWithImages ==
    (link_log.op = "process_single_link" /\ ImagesFound(link_log) # <<>>)
        => link_log.exc = "none"

\* str(n) of a row number.
StrOfNumber(n) ==
    IF n \in 0..9 THEN <<"0", "1", "2", "3", "4", "5", "6", "7", "8", "9">>[n + 1]
    ELSE "many"

\* The identifier lines 125 and 183 of main.py choose for the folder.
FolderIdentifier(result) ==
    LET arg == FolderArgument(result, result.product_id)
    IN  IF arg.from = "row_number" THEN StrOfNumber(arg.number) ELSE arg.name

\* C16: when images were found for a link, they are written into the folder
\* <download root>/<identifier>, the identifier being the folder name given,
\* else the row number, else the product id, under file names that use the
\* product id.
C16_FolderByIdentifier ==
    (link_log.op = "process_single_link" /\ ImagesFound(link_log) # <<>>) =>
        /\ link_log.exc = "none"
        /\ link_log.result.folder = Folder(FolderIdentifier(link_log.result))
        /\ \A i \in 1..Len(ImagesFound(link_log)) :
              i \notin link_log.ans.failing.lost =>
                  ImageFile(link_log.result.folder, link_log.result.product_id, i)
                      \in files

\* The AliExpress answer is an item with a title, a positive stock and at
\* least one image.
IsWidgetAnswer(resp) ==
    /\ resp.kind = "json"
    /\ ~AliGetProductDetails(resp).none
    /\ resp.body.item.kind = "obj"
    /\ resp.body.item.title # "absent"
    /\ ~IsOffline(resp.body.item)
    /\ StockQuantity(resp.body.item).has
    /\ StockQuantity(resp.body.item).v > 0
    /\ AliGetProductImages(resp).val # <<>>

\* C2: for a URL /item/<digits>.html on an AliExpress domain, when every
\* fetch returns an item with a title, a positive stock s and n >= 1 images
\* and no download fails, process_single_link returns product_id = the digit
\* run, available = true, stock_quantity = s, images_downloaded = n, a folder
\* and no error.
C2_EndToEnd ==
    (/\ link_log.op = "process_single_link"
     /\ validate_aliexpress_url(link_log.url).val
     /\ link_log.url.path = "item_html"
     /\ \A k \in Stages : IsWidgetAnswer(link_log.ans.ali[k])
     /\ link_log.ans.failing = NoneFailing)
        => /\ link_log.exc = "none"
           /\ link_log.result.product_id = link_log.url.digits
           /\ link_log.result.available
           /\ link_log.result.stock_quantity
                 = StockQuantity(link_log.ans.ali[4].body.item)
           /\ link_log.result.images_downloaded
                 = Len(AliGetProductImages(link_log.ans.ali[5]).val)
           /\ link_log.result.folder # NoFolder
           /\ link_log.result.error = NoneStr

\* C3: a batch over n links is never stopped by a failure of one link: it
\* is not left by an exception, and when it has returned from its loop it
\* holds exactly n results, one per link, in input order.
C3_BatchIsolation ==
    /\ run.pc # "raised"
    /\ (run.pc = "returned" /\ run.links # <<>>)
          => /\ Len(results) = Len(run.links)
             /\ \A k \in 1..Len(results) : results[k].url = run.links[k]

\* The row of the table from which the k-th link was read: the k-th row
\* whose link cell holds a link.
LinkRow(table, k) ==
    CHOOSE r \in 1..Len(table.rows) :
        /\ IsLink(table.rows[r])
        /\ Cardinality({q \in 1..r : IsLink(table.rows[q])}) = k

\* C4: when process_table has returned, every result is keyed by the index of
\* the row its link was read from, is written into that row, and carries the
\* folder name of the 'num' cell of that row.
C4_ResultInRowOfLink ==
    (run.mode = "table" /\ run.pc = "returned" /\ run.links # <<>>)
        => \A k \in 1..Len(results) :
              /\ results[k].row_index = Number(LinkRow(df, k) - 1)
              /\ df.rows[LinkRow(df, k)].out = ColumnsOf(results[k])
              /\ results[k].folder_name = get_folder_names(df)[LinkRow(df, k)]

\* A URL of unknown marketplace, or of which no id can be extracted.
IsUnresolvable(url) ==
    \/ detect_marketplace(url).val = "unknown"
    \/ detect_marketplace(url).val = "aliexpress" /\ extract_product_id(url).val = NoneStr
    \/ detect_marketplace(url).val = "ebay" /\ extract_ebay_item_id(url).val = NoneStr

\* What C23 says of a call on an unresolvable link, but for the marketplace
\* field: the call returns, the result holds the inputs and the error of
\* the failed stage, every other field is as process_single_link has set it
\* at its start, and no client call was made.
ShortCircuited(log) ==
    /\ log.exc = "none"
    /\ log.result.error =
          (IF detect_marketplace(log.url).val = "unknown"
           THEN "Invalid URL - not from AliExpress or eBay"
           ELSE IF detect_marketplace(log.url).val = "aliexpress"
           THEN "Could not extract product ID from URL"
           ELSE "Could not extract item ID from URL")
    /\ [log.result EXCEPT !.marketplace = NoneStr, !.error = NoneStr]
          = InitialResult(log.url, log.row_index, log.folder_name)
    /\ log.fetches = 0
    /\ log.issued = 0

\* The clients and the download folder are as they were.
NoCallMade ==
    UNCHANGED <<now, last_request_time, access_token, token_expiry, files>>

\* C23 as stated: a link that fails URL resolution gets a result with the
\* error set and every later field at its initial value, without any client
\* or downloader call; for a URL of unknown marketplace the fields
\* marketplace and product_id are None too.
C23_AsStated ==
    [][(link_log'.op = "process_single_link" /\ link_log.op = "init"
        /\ IsUnresolvable(link_log'.url))
          => /\ ShortCircuited(link_log')
             /\ NoCallMade
             /\ detect_marketplace(link_log'.url).val = "unknown"
                   => /\ link_log'.result.marketplace = NoneStr
                      /\ link_log'.result.product_id = NoneStr]_vars

\* C23 amended: the same, with the marketplace field holding what
\* detect_marketplace returned ('unknown' for a URL of unknown marketplace);
\* product_id is None.
C23_ShortCircuit ==
    [][(link_log'.op = "process_single_link" /\ link_log.op = "init"
        /\ IsUnresolvable(link_log'.url))
          => /\ ShortCircuited(link_log')
             /\ NoCallMade
             /\ link_log'.result.marketplace = detect_marketplace(link_log'.url).val
             /\ link_log'.result.product_id = NoneStr]_vars

C23_Witness ==
    /\ link_log.op = "process_single_link"
    /\ detect_marketplace(link_log.url).val = "aliexpress"
    /\ extract_product_id(link_log.url).val = NoneStr
    /\ link_log.result.error = "Could not extract product ID from URL"
    /\ link_log.result.row_number = Number(1)
    /\ link_log.folder_name = "7"

\* A call of process_single_link on a link whose id was extracted.
IsResolvedLink(log) ==
    /\ log.op = "process_single_link"
    /\ detect_marketplace(log.url).exc = "none"
    /\ ~IsUnresolvable(log.url)

\* The fields of the AliExpress stages in the result are the values the
\* accessors produce from the first four answers, in the order title,
\* description, price, availability.
AliStageFields(log) ==
    /\ log.result.title = AliGetProductTitle(log.ans.ali[1]).val
    /\ log.result.description = AliGetProductDescription(log.ans.ali[2]).val
    /\ log.result.price = AliGetProductPrice(log.ans.ali[3]).val.formatted
    /\ log.result.available = AliCheckAvailability(log.ans.ali[4]).v.available
    /\ log.result.stock_quantity
          = AliCheckAvailability(log.ans.ali[4]).v.stock_quantity

\* Every call on an AliExpress link that returns a result has made five
\* throttled fetches and holds the fields of the four stages before the
\* images.
ReturnedStagesInOrder ==
    (/\ IsResolvedLink(link_log)
     /\ link_log.exc = "none"
     /\ link_log.result.marketplace = "aliexpress")
        => /\ link_log.fetches = 5
           /\ link_log.issued >= 4 * request_delay
           /\ AliStageFields(link_log)

\* C27: for a link whose id was extracted the stages run in the order title,
\* description, price, availability, images, each with its own fetch (five
\* throttled fetches for AliExpress), and whatever a later stage does, a
\* result is returned in which the fields of the earlier stages hold the
\* values those stages produced.
C27_StagesInOrder ==
    IsResolvedLink(link_log)
        => /\ link_log.exc = "none"
           /\ link_log.result.marketplace = "aliexpress"
                 => /\ link_log.fetches = 5
                    /\ link_log.issued >= 4 * request_delay
                    /\ AliStageFields(link_log)

\* Every fetch of the call returned no data: the request for the item
\* failed, and no exception left the client.
NoDataEverywhere(log) ==
    IF log.result.marketplace = "aliexpress"
    THEN \A k \in Stages : /\ AliGetProductDetails(log.ans.ali[k]).exc = "none"
                           /\ AliGetProductDetails(log.ans.ali[k]).none
    ELSE \A k \in Stages : /\ log.ans.ebay[k].tok1.kind # "fail"
                           /\ log.ans.ebay[k].item.kind = "transport"

\* C29: a fetch failure is not reported in the error field: for a resolvable
\* link whose every fetch returns no data, process_single_link returns
\* error = None, title = None, description = None, price = 'N/A',
\* available = False, images_downloaded = 0 and folder = None, and the
\* summary counts the product as unavailable and not as an error.
C29_FetchFailureNotAnError ==
    (IsResolvedLink(link_log) /\ NoDataEverywhere(link_log))
        => /\ link_log.exc = "none"
           /\ link_log.result.error = NoneStr
           /\ link_log.result.title = NoneStr
           /\ link_log.result.description = NoneStr
           /\ link_log.result.price = <<"N/A">>
           /\ ~link_log.result.available
           /\ link_log.result.images_downloaded = 0
           /\ link_log.result.folder = NoFolder
           /\ PrintSummary(<<link_log.result>>).unavailable = 1
           /\ PrintSummary(<<link_log.result>>).errors = 0

\* An AliExpress link all five fetches of which ended in a transport error.
C29_Witness ==
    /\ IsResolvedLink(link_log)
    /\ link_log.result.marketplace = "aliexpress"
    /\ \A k \in Stages : link_log.ans.ali[k].kind = "transport"
    /\ link_log.fetches = 5
    /\ link_log.exc = "none"
    /\ link_log.result.error = NoneStr
    /\ link_log.result.price = <<"N/A">>

(***************************************************************************)
(* Claims about the batches                                                *)
(***************************************************************************)

\* The counts of C21 in a batch that has returned from its loop.
ReturnedBatchCounts ==
    (run.pc = "returned" /\ run.links # <<>>) =>
        LET n == Len(run.links)
            k == Cardinality({i \in 1..n : IsUnresolvable(run.links[i])})
        IN  /\ Len(results) = n
            /\ Cardinality({i \in 1..Len(results) : results[i].error # NoneStr}) = k
            /\ run.summary.printed
            /\ run.summary.errors = k
            /\ run.summary.total = n
            /\ run.summary.available + run.summary.unavailable = n
            /\ run.summary.aliexpress =
                  Cardinality({i \in 1..n : detect_marketplace(run.links[i]).val = "aliexpress"})
            /\ run.summary.ebay =
                  Cardinality({i \in 1..n : detect_marketplace(run.links[i]).val = "ebay"})

\* C21: a batch over n links of which k are unresolvable returns n results,
\* exactly k of them with an error, and its summary reports errors = k,
\* total = n, available + unavailable = n and the marketplace counts of
\* this batch.
C21_BatchErrorCounts ==
    /\ run.pc # "raised"
    /\ ReturnedBatchCounts

\* C22: a run of process_table or process_links_list that has ended has
\* printed the summary, whatever failed in it: it is not left by an
\* exception, and it does not return without the summary.
C22_SummaryAlwaysPrinted ==
    run.pc \in {"returned", "raised"} => run.summary.printed

\* C22 in the runs that get through their loop: the summary is printed
\* whether or not the results file could be saved.
SummaryAfterLoop ==
    (run.pc = "returned" /\ Len(results) = Len(run.links) /\ run.links # <<>>)
        => run.summary.printed

====
